---- MODULE Spec2Model ----
(***************************************************************************)
(* Model of the sales-compensation dashboard                                *)
(* (src/dashboards/production/dashboard_fast.py).                           *)
(*                                                                          *)
(* The dashboard is a Streamlit script: every user interaction re-executes  *)
(* the script top to bottom against st.session_state.  The calculation      *)
(* functions are modelled as operators, the script run as one action per    *)
(* kind of user interaction.                                                *)
(*                                                                          *)
(* Numbers.  The source computes with Python floats.  The model computes    *)
(* with exact rationals <<n, d>> (d > 0, lowest terms), so a rate that the  *)
(* source stores as 0.65 is the rational 65/100; binary rounding of the     *)
(* floats is not modelled.  A division the source would perform with a      *)
(* zero divisor (ZeroDivisionError) yields the value DivError.              *)
(***************************************************************************)
EXTENDS Integers, Sequences, FiniteSets, TLC

\* ------------------------------------------------------------------------
\* Exact rational arithmetic standing for the float arithmetic of the source
\* ------------------------------------------------------------------------
Abs(x) == IF x < 0 THEN -x ELSE x

RECURSIVE GCD(_, _)
GCD(a, b) == IF b = 0 THEN a ELSE GCD(b, a % b)

DivError == <<0, 0>>

IsNum(r) == r[2] # 0

Rat(n, d) ==
    IF d = 0 THEN DivError
    ELSE LET g == GCD(Abs(n), Abs(d))
             s == IF d < 0 THEN -1 ELSE 1
         IN  <<(s * n) \div g, (s * d) \div g>>

R(i) == <<i, 1>>

Zero == <<0, 1>>

RAdd(a, b) ==
    IF ~IsNum(a) \/ ~IsNum(b) THEN DivError
    ELSE LET g == GCD(a[2], b[2])
         IN  Rat(a[1] * (b[2] \div g) + b[1] * (a[2] \div g), (a[2] \div g) * b[2])

RNeg(a) == IF ~IsNum(a) THEN DivError ELSE <<-a[1], a[2]>>

RSub(a, b) == RAdd(a, RNeg(b))

RMul(a, b) ==
    IF ~IsNum(a) \/ ~IsNum(b) THEN DivError
    ELSE LET g1 == GCD(Abs(a[1]), b[2])
             g2 == GCD(Abs(b[1]), a[2])
         IN  Rat((a[1] \div g1) * (b[1] \div g2), (a[2] \div g2) * (b[2] \div g1))

\* a / b as Python evaluates it: an error when b == 0
RDiv(a, b) ==
    IF ~IsNum(a) \/ ~IsNum(b) \/ b[1] = 0 THEN DivError
    ELSE RMul(a, Rat(b[2], b[1]))

\* n1/d1 < n2/d2 for d1, d2 > 0, by integer parts and remainders
RECURSIVE Less(_, _, _, _)
Less(n1, d1, n2, d2) ==
    LET q1 == n1 \div d1
        q2 == n2 \div d2
        r1 == n1 % d1
        r2 == n2 % d2
    IN  IF q1 # q2 THEN q1 < q2
        ELSE IF r2 = 0 THEN FALSE
        ELSE IF r1 = 0 THEN TRUE
        ELSE Less(d2, r2, d1, r1)

RLt(a, b) == IsNum(a) /\ IsNum(b) /\ Less(a[1], a[2], b[1], b[2])

RLe(a, b) == IsNum(a) /\ IsNum(b) /\ ~Less(b[1], b[2], a[1], a[2])

RGt(a, b) == RLt(b, a)

RGe(a, b) == RLe(b, a)

\* dict.get(key, default)
Get(d, key, default) == IF key \in DOMAIN d THEN d[key] ELSE default

\* a local variable: the value v is computed once and the rest of the
\* function body F reads it
With(v, F(_)) == F(v)

\* ------------------------------------------------------------------------
\* calculate_deal_cash_splits
\* ------------------------------------------------------------------------
\* (variant: the deferred part computed from the upfront percentage)
calculate_deal_cash_splits_copied(deal_value, upfront_pct) ==
    [upfront_cash  |-> RMul(deal_value, RDiv(upfront_pct, R(100))),
     deferred_cash |-> RMul(deal_value, RDiv(upfront_pct, R(100))),
     upfront_pct   |-> upfront_pct,
     deferred_pct  |-> RSub(R(100), upfront_pct)]

calculate_deal_cash_splits(deal_value, upfront_pct) ==
    [upfront_cash  |-> RMul(deal_value, RDiv(upfront_pct, R(100))),
     deferred_cash |-> RMul(deal_value, RDiv(RSub(R(100), upfront_pct), R(100))),
     upfront_pct   |-> upfront_pct,
     deferred_pct  |-> RSub(R(100), upfront_pct)]

\* ------------------------------------------------------------------------
\* calculate_gtm_metrics_cached: the body of the function (a cache miss)
\* A channel is a record; its rates are held in percent (65 for 0.65).
\* ------------------------------------------------------------------------
Rate(pct) == Rat(pct, 100)

\* (variant: revenue on the commission base that the policy selects)
ChannelFunnel_policy(ch, econ) ==
    LET leads == R(Get(ch, "monthly_leads", 0))
        sales == RMul(RMul(RMul(RMul(leads, Rate(Get(ch, "contact_rate", 60))),
                                Rate(Get(ch, "meeting_rate", 30))),
                           Rate(Get(ch, "show_up_rate", 70))),
                      Rate(Get(ch, "close_rate", 25)))
    IN  [leads |-> leads,
         contacts |-> RMul(leads, Rate(Get(ch, "contact_rate", 60))),
         meetings_sched |-> RMul(RMul(leads, Rate(Get(ch, "contact_rate", 60))),
                                 Rate(Get(ch, "meeting_rate", 30))),
         meetings_held |-> RMul(RMul(RMul(leads, Rate(Get(ch, "contact_rate", 60))),
                                     Rate(Get(ch, "meeting_rate", 30))),
                                Rate(Get(ch, "show_up_rate", 70))),
         sales |-> sales,
         revenue |-> RMul(sales, IF econ.commission_policy = "upfront"
                                 THEN econ.upfront_cash ELSE econ.avg_deal_value),
         spend |-> RMul(leads, R(Get(ch, "cpl", 50))),
         close_rate |-> Rate(Get(ch, "close_rate", 25))]

\* (variant: sales taken from the contacts, skipping the meeting stages)
ChannelFunnel_skipping(ch, econ) ==
    LET leads        == R(Get(ch, "monthly_leads", 0))
        cpl          == R(Get(ch, "cpl", 50))
        contact_rate == Rate(Get(ch, "contact_rate", 60))
        meeting_rate == Rate(Get(ch, "meeting_rate", 30))
        show_up_rate == Rate(Get(ch, "show_up_rate", 70))
        close_rate   == Rate(Get(ch, "close_rate", 25))
    IN  With(RMul(leads, contact_rate), LAMBDA contacts :
        With(RMul(contacts, meeting_rate), LAMBDA meetings_sched :
        With(RMul(meetings_sched, show_up_rate), LAMBDA meetings_held :
        With(RMul(contacts, close_rate), LAMBDA sales :
            [leads |-> leads, contacts |-> contacts,
             meetings_sched |-> meetings_sched, meetings_held |-> meetings_held,
             sales |-> sales,
             revenue |-> RMul(sales, econ.upfront_cash),
             spend |-> RMul(leads, cpl),
             close_rate |-> close_rate]))))

\* one channel's funnel, the loop body up to "spend = leads * cpl"
ChannelFunnel(ch, econ) ==
    LET leads        == R(Get(ch, "monthly_leads", 0))
        cpl          == R(Get(ch, "cpl", 50))
        contact_rate == Rate(Get(ch, "contact_rate", 60))
        meeting_rate == Rate(Get(ch, "meeting_rate", 30))
        show_up_rate == Rate(Get(ch, "show_up_rate", 70))
        close_rate   == Rate(Get(ch, "close_rate", 25))
    IN  With(RMul(leads, contact_rate), LAMBDA contacts :
        With(RMul(contacts, meeting_rate), LAMBDA meetings_sched :
        With(RMul(meetings_sched, show_up_rate), LAMBDA meetings_held :
        With(RMul(meetings_held, close_rate), LAMBDA sales :
            [leads |-> leads, contacts |-> contacts,
             meetings_sched |-> meetings_sched, meetings_held |-> meetings_held,
             sales |-> sales,
             revenue |-> RMul(sales, econ.upfront_cash),
             spend |-> RMul(leads, cpl),
             close_rate |-> close_rate]))))

\* the channels_breakdown entry appended for an enabled channel
BreakdownEntry(ch, f) ==
    [name |-> Get(ch, "name", "Channel"),
     segment |-> Get(ch, "segment", "Unknown"),
     leads |-> f.leads, sales |-> f.sales, revenue |-> f.revenue, spend |-> f.spend,
     cpa  |-> IF RGt(f.sales, Zero) THEN RDiv(f.spend, f.sales) ELSE Zero,
     roas |-> IF RGt(f.spend, Zero) THEN RDiv(f.revenue, f.spend) ELSE Zero,
     close_rate |-> f.close_rate]

EmptyTotals ==
    [total_leads |-> Zero, total_contacts |-> Zero, total_meetings_sched |-> Zero,
     total_meetings_held |-> Zero, total_sales |-> Zero, total_revenue |-> Zero,
     total_spend |-> Zero, channels_breakdown |-> <<>>]

\* (variant: the flag is not looked at)
IsEnabled_ignored(ch) == TRUE

\* "if not ch.get('enabled', True): continue"
IsEnabled(ch) == Get(ch, "enabled", TRUE)

\* (variant: the spend total is overwritten instead of added to)
Accumulate_overwrite(acc, ch, f) ==
    [total_leads          |-> RAdd(acc.total_leads, f.leads),
     total_contacts       |-> RAdd(acc.total_contacts, f.contacts),
     total_meetings_sched |-> RAdd(acc.total_meetings_sched, f.meetings_sched),
     total_meetings_held  |-> RAdd(acc.total_meetings_held, f.meetings_held),
     total_sales          |-> RAdd(acc.total_sales, f.sales),
     total_revenue        |-> RAdd(acc.total_revenue, f.revenue),
     total_spend          |-> f.spend,
     channels_breakdown   |-> Append(acc.channels_breakdown, BreakdownEntry(ch, f))]

\* the "# Aggregate" and "# Channel breakdown" blocks of the loop body
Accumulate(acc, ch, f) ==
    [total_leads          |-> RAdd(acc.total_leads, f.leads),
     total_contacts       |-> RAdd(acc.total_contacts, f.contacts),
     total_meetings_sched |-> RAdd(acc.total_meetings_sched, f.meetings_sched),
     total_meetings_held  |-> RAdd(acc.total_meetings_held, f.meetings_held),
     total_sales          |-> RAdd(acc.total_sales, f.sales),
     total_revenue        |-> RAdd(acc.total_revenue, f.revenue),
     total_spend          |-> RAdd(acc.total_spend, f.spend),
     channels_breakdown   |-> Append(acc.channels_breakdown, BreakdownEntry(ch, f))]

\* the accumulation loop "for ch in channels", in list order
RECURSIVE Aggregate(_, _, _)
Aggregate(channels, econ, acc) ==
    IF channels = <<>> THEN acc
    ELSE LET ch == Head(channels)
         IN  IF ~IsEnabled(ch)
             THEN Aggregate(Tail(channels), econ, acc)
             ELSE Aggregate(Tail(channels), econ,
                            Accumulate(acc, ch, ChannelFunnel(ch, econ)))

\* mean of the per-channel close_rate values (not what the source computes)
RECURSIVE SumCloseRates(_)
SumCloseRates(bd) ==
    IF bd = <<>> THEN Zero ELSE RAdd(Head(bd).close_rate, SumCloseRates(Tail(bd)))

MeanCloseRate(bd) ==
    IF bd = <<>> THEN Zero ELSE RDiv(SumCloseRates(bd), R(Len(bd)))

cost_per_sale_of(t) ==
    IF RGt(t.total_sales, Zero) THEN RDiv(t.total_spend, t.total_sales) ELSE Zero

blended_close_rate_mean(t) == MeanCloseRate(t.channels_breakdown)

blended_close_rate_of(t) ==
    IF RGt(t.total_meetings_held, Zero)
    THEN RDiv(t.total_sales, t.total_meetings_held) ELSE Zero

\* econ is what DealEconomicsManager.get_current_deal_economics() returns
\* at the time of the call
calculate_gtm_metrics(channels, econ) ==
    IF channels = <<>>
    THEN [monthly_leads |-> Zero, monthly_contacts |-> Zero,
          monthly_meetings_scheduled |-> Zero, monthly_meetings_held |-> Zero,
          monthly_sales |-> Zero, monthly_revenue_immediate |-> Zero,
          blended_close_rate |-> Zero, blended_ltv_cac |-> Zero]
    ELSE With(Aggregate(channels, econ, EmptyTotals), LAMBDA t :
             [monthly_leads |-> t.total_leads,
              monthly_contacts |-> t.total_contacts,
              monthly_meetings_scheduled |-> t.total_meetings_sched,
              monthly_meetings_held |-> t.total_meetings_held,
              monthly_sales |-> t.total_sales,
              monthly_revenue_immediate |-> t.total_revenue,
              total_marketing_spend |-> t.total_spend,
              cost_per_sale |-> cost_per_sale_of(t),
              blended_close_rate |-> blended_close_rate_of(t),
              channels_breakdown |-> t.channels_breakdown])

\* "marketing_spend = sum(leads * cpl for ch in gtm_channels if enabled)"
RECURSIVE marketing_spend_of(_)
marketing_spend_of(channels) ==
    IF channels = <<>> THEN Zero
    ELSE LET ch == Head(channels)
         IN  IF Get(ch, "enabled", TRUE)
             THEN RAdd(RMul(R(Get(ch, "monthly_leads", 0)), R(Get(ch, "cpl", 50))),
                       marketing_spend_of(Tail(channels)))
             ELSE marketing_spend_of(Tail(channels))

\* ------------------------------------------------------------------------
\* DealEconomicsManager (module deal_economics_manager)
\* ------------------------------------------------------------------------
\* the deal economics of a deal value, an upfront percentage and a policy
DealEconomics(deal_value, upfront_pct, policy) ==
    [avg_deal_value    |-> deal_value,
     upfront_pct       |-> upfront_pct,
     upfront_cash      |-> RMul(deal_value, RDiv(upfront_pct, R(100))),
     deferred_cash     |-> RMul(deal_value, RDiv(RSub(R(100), upfront_pct), R(100))),
     commission_policy |-> policy]

\* DealEconomicsManager.get_current_deal_economics(): read from the session
get_current_deal_economics(ss) ==
    DealEconomics(Get(ss, "calculated_deal_value", R(ss.avg_deal_value)),
                  R(ss.upfront_payment_pct), ss.commission_policy)

\* the commission base per deal selected by the commission policy
commission_base(econ) ==
    IF econ.commission_policy = "upfront" THEN econ.upfront_cash ELSE econ.avg_deal_value

\* DealEconomicsManager.calculate_monthly_commission(sales, roles_comp, deal_econ)
calculate_monthly_commission(sales_count, roles_comp, econ) ==
    With(RMul(sales_count, commission_base(econ)), LAMBDA revenue_base :
    With([role \in DOMAIN roles_comp |->
             RMul(revenue_base, RDiv(roles_comp[role].commission_pct, R(100)))],
         LAMBDA pool :
        [closer_pool  |-> pool["closer"],
         setter_pool  |-> pool["setter"],
         manager_pool |-> pool["manager"],
         commission_base  |-> commission_base(econ),
         total_commission |-> RAdd(pool["closer"], RAdd(pool["setter"], pool["manager"]))]))

\* DealEconomicsManager.calculate_per_deal_commission(roles_comp, deal_econ)
calculate_per_deal_commission(roles_comp, econ) ==
    calculate_monthly_commission(R(1), roles_comp, econ)

\* ------------------------------------------------------------------------
\* create_compensation_structure (compensation_v2.py): the pools of the
\* commission flow, each a share of the actual monthly revenue
\* ------------------------------------------------------------------------
\* (variant: the closers are paid at the setters' rate and the reverse)
CommissionPools_swapped(actual_monthly_revenue, closer_comm, setter_comm) ==
    [closer_pool      |-> RMul(actual_monthly_revenue, setter_comm),
     setter_pool      |-> RMul(actual_monthly_revenue, closer_comm),
     total_commission |-> RAdd(RMul(actual_monthly_revenue, setter_comm),
                               RMul(actual_monthly_revenue, closer_comm))]

CommissionPools(actual_monthly_revenue, closer_comm, setter_comm) ==
    [closer_pool      |-> RMul(actual_monthly_revenue, closer_comm),
     setter_pool      |-> RMul(actual_monthly_revenue, setter_comm),
     total_commission |-> RAdd(RMul(actual_monthly_revenue, closer_comm),
                               RMul(actual_monthly_revenue, setter_comm))]

\* ------------------------------------------------------------------------
\* calculate_unit_economics_cached, calculate_pnl_cached, generate_alerts
\* (their st.cache_data keys are their complete argument lists, so the
\* cached functions are the functions themselves)
\* ------------------------------------------------------------------------
PaybackSentinel == 999

\* calculate_unit_economics_cached with the deferred cash counted in full,
\* the retention rate ignored
calculate_unit_economics_cached_noretention(deal_value, upfront_pct, grr, cost_per_sale) ==
    With(calculate_deal_cash_splits(deal_value, upfront_pct), LAMBDA cash_splits :
    With(RAdd(cash_splits.upfront_cash, cash_splits.deferred_cash), LAMBDA ltv :
        [ltv     |-> ltv,
         cac     |-> cost_per_sale,
         ltv_cac |-> IF RGt(cost_per_sale, Zero) THEN RDiv(ltv, cost_per_sale) ELSE Zero,
         payback_months |-> IF RGt(cash_splits.upfront_cash, Zero)
                            THEN RDiv(cost_per_sale, RDiv(cash_splits.upfront_cash, R(12)))
                            ELSE R(PaybackSentinel),
         upfront_cash  |-> cash_splits.upfront_cash,
         deferred_cash |-> cash_splits.deferred_cash,
         upfront_pct   |-> cash_splits.upfront_pct,
         deferred_pct  |-> cash_splits.deferred_pct]))

calculate_unit_economics_cached(deal_value, upfront_pct, grr, cost_per_sale) ==
    With(calculate_deal_cash_splits(deal_value, upfront_pct), LAMBDA cash_splits :
    With(RAdd(cash_splits.upfront_cash, RMul(cash_splits.deferred_cash, grr)), LAMBDA ltv :
        [ltv     |-> ltv,
         cac     |-> cost_per_sale,
         ltv_cac |-> IF RGt(cost_per_sale, Zero) THEN RDiv(ltv, cost_per_sale) ELSE Zero,
         payback_months |-> IF RGt(cash_splits.upfront_cash, Zero)
                            THEN RDiv(cost_per_sale, RDiv(cash_splits.upfront_cash, R(12)))
                            ELSE R(PaybackSentinel),
         upfront_cash  |-> cash_splits.upfront_cash,
         deferred_cash |-> cash_splits.deferred_cash,
         upfront_pct   |-> cash_splits.upfront_pct,
         deferred_pct  |-> cash_splits.deferred_pct]))

\* calculate_pnl_cached with the government fees not deducted
calculate_pnl_cached_nofees(revenue, team_base, commissions, marketing, opex, gov_fees) ==
    With(revenue, LAMBDA net_revenue :
    With(RAdd(team_base, commissions), LAMBDA cogs :
    With(RSub(net_revenue, cogs), LAMBDA gross_profit :
    With(RAdd(marketing, opex), LAMBDA total_opex :
    With(RSub(gross_profit, total_opex), LAMBDA ebitda :
        [gross_revenue |-> revenue,
         gov_fees      |-> gov_fees,
         net_revenue   |-> net_revenue,
         cogs          |-> cogs,
         team_base     |-> team_base,
         commissions   |-> commissions,
         gross_profit  |-> gross_profit,
         gross_margin  |-> IF RGt(net_revenue, Zero)
                           THEN RMul(RDiv(gross_profit, net_revenue), R(100)) ELSE Zero,
         marketing     |-> marketing,
         opex          |-> opex,
         total_opex    |-> total_opex,
         ebitda        |-> ebitda,
         ebitda_margin |-> IF RGt(net_revenue, Zero)
                           THEN RMul(RDiv(ebitda, net_revenue), R(100)) ELSE Zero])))))

\* calculate_pnl_cached with the margins divided without the guard
calculate_pnl_cached_unguarded(revenue, team_base, commissions, marketing, opex, gov_fees) ==
    With(RSub(revenue, gov_fees), LAMBDA net_revenue :
    With(RAdd(team_base, commissions), LAMBDA cogs :
    With(RSub(net_revenue, cogs), LAMBDA gross_profit :
    With(RAdd(marketing, opex), LAMBDA total_opex :
    With(RSub(gross_profit, total_opex), LAMBDA ebitda :
        [gross_revenue |-> revenue,
         gov_fees      |-> gov_fees,
         net_revenue   |-> net_revenue,
         cogs          |-> cogs,
         team_base     |-> team_base,
         commissions   |-> commissions,
         gross_profit  |-> gross_profit,
         gross_margin  |-> RMul(RDiv(gross_profit, net_revenue), R(100)),
         marketing     |-> marketing,
         opex          |-> opex,
         total_opex    |-> total_opex,
         ebitda        |-> ebitda,
         ebitda_margin |-> RMul(RDiv(ebitda, net_revenue), R(100))])))))

\* gross_margin and ebitda_margin are percentages: the ratio to net revenue
\* times 100, and 0 when net revenue is not positive
calculate_pnl_cached(revenue, team_base, commissions, marketing, opex, gov_fees) ==
    With(RSub(revenue, gov_fees), LAMBDA net_revenue :
    With(RAdd(team_base, commissions), LAMBDA cogs :
    With(RSub(net_revenue, cogs), LAMBDA gross_profit :
    With(RAdd(marketing, opex), LAMBDA total_opex :
    With(RSub(gross_profit, total_opex), LAMBDA ebitda :
        [gross_revenue |-> revenue,
         gov_fees      |-> gov_fees,
         net_revenue   |-> net_revenue,
         cogs          |-> cogs,
         team_base     |-> team_base,
         commissions   |-> commissions,
         gross_profit  |-> gross_profit,
         gross_margin  |-> IF RGt(net_revenue, Zero)
                           THEN RMul(RDiv(gross_profit, net_revenue), R(100)) ELSE Zero,
         marketing     |-> marketing,
         opex          |-> opex,
         total_opex    |-> total_opex,
         ebitda        |-> ebitda,
         ebitda_margin |-> IF RGt(net_revenue, Zero)
                           THEN RMul(RDiv(ebitda, net_revenue), R(100)) ELSE Zero])))))

Alert(type, title) == [type |-> type, title |-> title]

\* (variant: the payback sentinel is taken as "no payback known" and raises
\* no warning)
generate_alerts_nosentinel(gtm, ue, pnl) ==
    (IF RLt(ue.ltv_cac, Rat(3, 2))
     THEN << Alert("error", "Unit Economics Unhealthy") >> ELSE << >>)
    \o (IF RLt(pnl.ebitda, Zero)
        THEN << Alert("error", "Negative EBITDA") >> ELSE << >>)
    \o (IF RGt(ue.payback_months, R(12)) /\ ue.payback_months # R(PaybackSentinel)
        THEN << Alert("warning", "Long Payback Period") >> ELSE << >>)
    \o (IF RLt(pnl.gross_margin, R(60))
        THEN << Alert("warning", "Low Gross Margin") >> ELSE << >>)
    \o (IF RLt(gtm.monthly_sales, R(10))
        THEN << Alert("warning", "Low Sales Volume") >> ELSE << >>)
    \o (IF RGe(ue.ltv_cac, R(3)) /\ RGe(pnl.ebitda_margin, R(20))
        THEN << Alert("success", "Healthy Business Metrics") >> ELSE << >>)

\* (variant: the success alert is appended first)
generate_alerts_successfirst(gtm, ue, pnl) ==
    (IF RGe(ue.ltv_cac, R(3)) /\ RGe(pnl.ebitda_margin, R(20))
     THEN << Alert("success", "Healthy Business Metrics") >> ELSE << >>)
    \o (IF RLt(ue.ltv_cac, Rat(3, 2))
        THEN << Alert("error", "Unit Economics Unhealthy") >> ELSE << >>)
    \o (IF RLt(pnl.ebitda, Zero)
        THEN << Alert("error", "Negative EBITDA") >> ELSE << >>)
    \o (IF RGt(ue.payback_months, R(12))
        THEN << Alert("warning", "Long Payback Period") >> ELSE << >>)
    \o (IF RLt(pnl.gross_margin, R(60))
        THEN << Alert("warning", "Low Gross Margin") >> ELSE << >>)
    \o (IF RLt(gtm.monthly_sales, R(10))
        THEN << Alert("warning", "Low Sales Volume") >> ELSE << >>)

\* the alerts generate_alerts returns, in the order of the list: the type
\* and the title of each
generate_alerts(gtm, ue, pnl) ==
    (IF RLt(ue.ltv_cac, Rat(3, 2))
     THEN << Alert("error", "Unit Economics Unhealthy") >> ELSE << >>)
    \o (IF RLt(pnl.ebitda, Zero)
        THEN << Alert("error", "Negative EBITDA") >> ELSE << >>)
    \o (IF RGt(ue.payback_months, R(12))
        THEN << Alert("warning", "Long Payback Period") >> ELSE << >>)
    \o (IF RLt(pnl.gross_margin, R(60))
        THEN << Alert("warning", "Low Gross Margin") >> ELSE << >>)
    \o (IF RLt(gtm.monthly_sales, R(10))
        THEN << Alert("warning", "Low Sales Volume") >> ELSE << >>)
    \o (IF RGe(ue.ltv_cac, R(3)) /\ RGe(pnl.ebitda_margin, R(20))
        THEN << Alert("success", "Healthy Business Metrics") >> ELSE << >>)

\* ------------------------------------------------------------------------
\* st.session_state and the script run
\* ------------------------------------------------------------------------
Put(d, key, value) == [k \in DOMAIN d \cup {key} |-> IF k = key THEN value ELSE d[k]]

Del(d, keys) == [k \in DOMAIN d \ keys |-> d[k]]

\* initialize_session_state: the defaults (grr_rate 0.90 is held as 90/100,
\* the channel id 'channel_n' as n)
Defaults ==
    [avg_deal_value |-> 50000, upfront_payment_pct |-> 70, contract_length_months |-> 12,
     commission_policy |-> "upfront", government_cost_pct |-> 10,
     num_closers_main |-> 8, num_setters_main |-> 4, num_managers_main |-> 2,
     num_benchs_main |-> 2,
     closer_base |-> 32000, closer_commission_pct |-> 20,
     setter_base |-> 16000, setter_commission_pct |-> 3,
     manager_base |-> 72000, manager_commission_pct |-> 5,
     bench_base |-> 12500,
     office_rent |-> 20000, software_costs |-> 10000, other_opex |-> 5000,
     gtm_channels |-> << [id |-> 1, name |-> "Primary Channel",
                          monthly_leads |-> 1000, cpl |-> 50, contact_rate |-> 65,
                          meeting_rate |-> 40, show_up_rate |-> 70, close_rate |-> 30] >>,
     grr_rate |-> Rat(90, 100)]

\* "for key, value in defaults.items(): if key not in st.session_state: ..."
initialize_session_state(ss) ==
    [k \in DOMAIN ss \cup DOMAIN Defaults |-> IF k \in DOMAIN ss THEN ss[k] ELSE Defaults[k]]

\* the acquisition cost the script passes on when cost_per_sale is not positive
DefaultCostPerSale == 5000

\* the call of calculate_gtm_metrics_cached through st.cache_data: the key is
\* the JSON of the channel list, nothing else
CacheLookup(ca, ss) ==
    IF ss.gtm_channels \in DOMAIN ca
    THEN ca[ss.gtm_channels]
    ELSE calculate_gtm_metrics(ss.gtm_channels, get_current_deal_economics(ss))

\* the cache after the call returned value
CacheStore(ca, ss, value) ==
    IF ss.gtm_channels \in DOMAIN ca THEN ca ELSE Put(ca, ss.gtm_channels, value)

RolesComp(ss) ==
    [closer  |-> [commission_pct |-> R(ss.closer_commission_pct)],
     setter  |-> [commission_pct |-> R(ss.setter_commission_pct)],
     manager |-> [commission_pct |-> R(ss.manager_commission_pct)]]

TeamBase(ss) ==
    R(ss.closer_base * ss.num_closers_main + ss.setter_base * ss.num_setters_main
      + ss.manager_base * ss.num_managers_main + ss.bench_base * ss.num_benchs_main)

\* the header of the script ("Quick metrics at top") and the alerts of tab 1
TopOfScript(ss, ca) ==
    With(CacheLookup(ca, ss), LAMBDA gtm :
    With(get_current_deal_economics(ss), LAMBDA econ :
    With(calculate_monthly_commission(gtm.monthly_sales, RolesComp(ss), econ), LAMBDA comm :
    With(marketing_spend_of(ss.gtm_channels), LAMBDA mkt :
    With(RMul(gtm.monthly_revenue_immediate, Rat(ss.government_cost_pct, 100)),
         LAMBDA gov_fees :
    With(calculate_pnl_cached(gtm.monthly_revenue_immediate, TeamBase(ss),
             comm.total_commission, mkt,
             R(ss.office_rent + ss.software_costs + ss.other_opex), gov_fees),
         LAMBDA pnl :
    With(calculate_unit_economics_cached(econ.avg_deal_value, econ.upfront_pct,
             ss.grr_rate,
             IF RGt(Get(gtm, "cost_per_sale", Zero), Zero)
             THEN gtm.cost_per_sale ELSE R(DefaultCostPerSale)),
         LAMBDA ue :
        [cache |-> CacheStore(ca, ss, gtm), gtm_metrics |-> gtm, deal_econ |-> econ,
         comm_calc |-> comm, marketing_spend |-> mkt, pnl_data |-> pnl,
         unit_econ |-> ue, alerts |-> generate_alerts(gtm, ue, pnl)])))))))

\* the values of a channel's widgets when they are first rendered
NewChannelWidgets(ch) ==
    [cpl |-> Get(ch, "cpl", 50), monthly_leads |-> Get(ch, "monthly_leads", 500),
     contact_rate |-> Get(ch, "contact_rate", 60),
     meeting_rate |-> Get(ch, "meeting_rate", 30),
     show_up_rate |-> Get(ch, "show_up_rate", 70),
     close_rate |-> Get(ch, "close_rate", 25),
     enabled |-> Get(ch, "enabled", TRUE)]

ChannelIds(channels) == { channels[i].id : i \in 1..Len(channels) }

\* the widget values of the channels after the expanders of tab 1 rendered
RenderChannelWidgets(channels, wd) ==
    [id \in ChannelIds(channels) |->
        IF id \in DOMAIN wd THEN wd[id]
        ELSE NewChannelWidgets(
               channels[CHOOSE i \in 1..Len(channels) : channels[i].id = id])]

\* tab 1, "Configure each channel": the widget values are written into the
\* channel ('Cost per Lead' input method)
StoreChannel(ch, w) ==
    [k \in DOMAIN ch \cup DOMAIN w |-> IF k \in DOMAIN w THEN w[k] ELSE ch[k]]

ConfigureChannels(channels, wd) ==
    [i \in 1..Len(channels) |-> StoreChannel(channels[i], wd[channels[i].id])]

\* tab 5, "Deal Value Calculation Method"
DealCalcMethods ==
    {"Direct Value", "Insurance (Premium-Based)", "Subscription (MRR)",
     "Commission % of Contract"}

\* the keyed inputs each method renders, with the value a first rendering gives
MethodInputs(method) ==
    IF method = "Insurance (Premium-Based)"
    THEN [monthly_premium |-> 3000, insurance_commission_rate |-> 27,
          insurance_contract_years |-> 18]
    ELSE IF method = "Subscription (MRR)"
    THEN [mrr |-> 5000, sub_term_months |-> 12]
    ELSE IF method = "Commission % of Contract"
    THEN [total_contract_value |-> 100000, contract_commission_pct |-> 100,
          contract_length_months |-> 12]
    ELSE [avg_deal_value |-> 50000, contract_length_months |-> 12]

AllMethodInputKeys == UNION { DOMAIN MethodInputs(m) : m \in DealCalcMethods }

\* the session after the method's widgets rendered: a widget whose key is
\* not in the session takes its default
RenderMethodInputs(ss, method) ==
    LET d == MethodInputs(method)
    IN  [k \in DOMAIN ss \cup DOMAIN d |-> IF k \in DOMAIN ss THEN ss[k] ELSE d[k]]

\* (variant: a value calculated by an earlier run is kept)
DealValueCalculator_kept(ss, method) ==
    IF "calculated_deal_value" \in DOMAIN ss
    THEN <<ss.calculated_deal_value, ss.calculated_contract_length>>
    ELSE <<R(ss.avg_deal_value), ss.contract_length_months>>

\* (variant: the insurance premium is not annualised)
DealValueCalculator_annual(ss, method) ==
    IF method = "Insurance (Premium-Based)"
    THEN <<RMul(R(ss.monthly_premium * ss.insurance_contract_years),
                RDiv(Rat(ss.insurance_commission_rate, 10), R(100))),
           ss.insurance_contract_years * 12>>
    ELSE IF method = "Subscription (MRR)"
    THEN <<R(ss.mrr * ss.sub_term_months), ss.sub_term_months>>
    ELSE IF method = "Commission % of Contract"
    THEN <<RMul(R(ss.total_contract_value),
                RDiv(Rat(ss.contract_commission_pct, 10), R(100))),
           ss.contract_length_months>>
    ELSE <<R(ss.avg_deal_value), ss.contract_length_months>>

\* (avg_deal_value, contract_length) of the branch taken;
\* insurance_commission_rate and contract_commission_pct are held in tenths
\* of a percent (27 for 2.7 %)
DealValueCalculator(ss, method) ==
    IF method = "Insurance (Premium-Based)"
    THEN <<RMul(R(ss.monthly_premium * 12 * ss.insurance_contract_years),
                RDiv(Rat(ss.insurance_commission_rate, 10), R(100))),
           ss.insurance_contract_years * 12>>
    ELSE IF method = "Subscription (MRR)"
    THEN <<R(ss.mrr * ss.sub_term_months), ss.sub_term_months>>
    ELSE IF method = "Commission % of Contract"
    THEN <<RMul(R(ss.total_contract_value),
                RDiv(Rat(ss.contract_commission_pct, 10), R(100))),
           ss.contract_length_months>>
    ELSE <<R(ss.avg_deal_value), ss.contract_length_months>>

PolicyOfSelector(selector) ==
    IF selector = "Upfront Cash Only" THEN "upfront" ELSE "full"

\* tab 5, "Deal Economics & Payment Terms": returns the session and the
\* payment splits shown
DealEconomicsSection(ss0) ==
    With(Get(ss0, "deal_calc_method", "Direct Value"), LAMBDA method :
    With(RenderMethodInputs(Put(ss0, "deal_calc_method", method), method), LAMBDA ss1 :
    With(DealValueCalculator(ss1, method), LAMBDA dv :
    With(Put(Put(ss1, "calculated_deal_value", dv[1]),
             "calculated_contract_length", dv[2]),
         LAMBDA ss2 :
    With(Get(ss2, "commission_policy_selector",
             IF ss2.commission_policy = "upfront"
             THEN "Upfront Cash Only" ELSE "Full Deal Value"),
         LAMBDA selector :
    With(Put(Put(ss2, "commission_policy_selector", selector),
             "commission_policy", PolicyOfSelector(selector)),
         LAMBDA ss3 :
        [session_state  |-> ss3,
         payment_splits |->
             calculate_deal_cash_splits(dv[1], R(ss3.upfront_payment_pct))]))))))

\* what Streamlit drops at the end of a run: the state of the keyed deal
\* inputs that the run did not render
StaleInputKeys(ss) ==
    (AllMethodInputKeys \ DOMAIN MethodInputs(ss.deal_calc_method)) \cap DOMAIN ss

\* one complete run of the script; at its end Streamlit drops the state of
\* the widgets that the run did not render
ScriptRun(ss0, wd0, ca0) ==
    With(initialize_session_state(ss0), LAMBDA ss1 :
    With(TopOfScript(ss1, ca0), LAMBDA top :
    With(RenderChannelWidgets(ss1.gtm_channels, wd0), LAMBDA wd1 :
    With(DealEconomicsSection(
             Put(ss1, "gtm_channels", ConfigureChannels(ss1.gtm_channels, wd1))),
         LAMBDA sec :
        [session_state  |-> Del(sec.session_state, StaleInputKeys(sec.session_state)),
         widgets        |-> wd1,
         cache          |-> top.cache,
         gtm_metrics    |-> top.gtm_metrics,
         deal_econ      |-> top.deal_econ,
         comm_calc      |-> top.comm_calc,
         marketing_spend |-> top.marketing_spend,
         pnl_data       |-> top.pnl_data,
         unit_econ      |-> top.unit_econ,
         alerts         |-> top.alerts,
         payment_splits |-> sec.payment_splits]))))

\* ------------------------------------------------------------------------
\* render_commission_flow (tab 2): the pools and the per-person amounts drawn
\* ------------------------------------------------------------------------
FlowViews == {"Monthly Total", "Per Deal"}

\* "per_person = pool" in Per Deal view, "per_person = pool / count" otherwise
PerPerson_divided(flow_view, pool, count) == RDiv(pool, R(count))

PerPerson(flow_view, pool, count) ==
    IF flow_view = "Per Deal" THEN pool ELSE RDiv(pool, R(count))

render_commission_flow(flow_view, ss, gtm, deal_econ_data) ==
    With(IF flow_view = "Per Deal"
         THEN calculate_per_deal_commission(RolesComp(ss), deal_econ_data)
         ELSE calculate_monthly_commission(gtm.monthly_sales, RolesComp(ss),
                                           deal_econ_data),
         LAMBDA comm :
    With([closer |-> comm.closer_pool, setter |-> comm.setter_pool,
          manager |-> comm.manager_pool],
         LAMBDA pools :
    With([closer |-> ss.num_closers_main, setter |-> ss.num_setters_main,
          manager |-> ss.num_managers_main],
         LAMBDA counts :
        [pools      |-> pools,
         counts     |-> counts,
         per_person |-> [role \in { r \in DOMAIN counts : counts[r] > 0 } |->
                            PerPerson(flow_view, pools[role], counts[role])]])))

\* ------------------------------------------------------------------------
\* State
\* ------------------------------------------------------------------------
VARIABLES
    session_state,   \* st.session_state
    widgets,         \* the values of the channel widgets of tab 1, by channel id
    cache,           \* the st.cache_data entries of calculate_gtm_metrics_cached
    channels_json,   \* the argument of the run's call of calculate_gtm_metrics_cached
    gtm_metrics,     \* the values the last run computed and displayed
    deal_econ,
    comm_calc,
    marketing_spend,
    pnl_data,
    unit_econ,
    alerts,
    payment_splits,
    runs,            \* number of script runs so far
    call,       \* a calculation function applied on its own: its name and arguments
    result      \* what that call returned (NoResult before it has returned)

sessionVars == <<session_state, widgets, cache, channels_json, gtm_metrics, deal_econ,
                 comm_calc, marketing_spend, pnl_data, unit_econ, alerts,
                 payment_splits, runs>>

fnVars == <<call, result>>

vars == <<session_state, widgets, cache, channels_json, gtm_metrics, deal_econ,
          comm_calc, marketing_spend, pnl_data, unit_econ, alerts, payment_splits,
          runs, call, result>>

NoCall == [fn |-> "none"]

NoResult == [done |-> FALSE]

Returned(v) == [done |-> TRUE, value |-> v]

\* the session as a run leaves it
AfterRun(ss, r) ==
    /\ session_state' = r.session_state
    /\ widgets' = r.widgets
    /\ cache' = r.cache
    /\ channels_json' = initialize_session_state(ss).gtm_channels
    /\ gtm_metrics' = r.gtm_metrics
    /\ deal_econ' = r.deal_econ
    /\ comm_calc' = r.comm_calc
    /\ marketing_spend' = r.marketing_spend
    /\ pnl_data' = r.pnl_data
    /\ unit_econ' = r.unit_econ
    /\ alerts' = r.alerts
    /\ payment_splits' = r.payment_splits

\* the session as run r left it
SessionIs(r) ==
    /\ session_state = r.session_state
    /\ widgets = r.widgets
    /\ cache = r.cache
    /\ gtm_metrics = r.gtm_metrics
    /\ deal_econ = r.deal_econ
    /\ comm_calc = r.comm_calc
    /\ marketing_spend = r.marketing_spend
    /\ pnl_data = r.pnl_data
    /\ unit_econ = r.unit_econ
    /\ alerts = r.alerts
    /\ payment_splits = r.payment_splits

\* the session when the browser has loaded the page: one run from the defaults
FirstRun == ScriptRun(Defaults, <<>>, <<>>)

SessionInit ==
    /\ SessionIs(FirstRun)
    /\ channels_json = Defaults.gtm_channels
    /\ runs = 1

\* ------------------------------------------------------------------------
\* Bounds and input sets
\* ------------------------------------------------------------------------
MaxChannels == 3

\* channels as the dashboard creates them: the default channel of
\* initialize_session_state (no 'enabled' key), the channel that Add Channel
\* appends, and variants of differing volume, close rate and enabled flag
DefaultChannel ==
    [monthly_leads |-> 1000, cpl |-> 50, contact_rate |-> 65, meeting_rate |-> 40,
     show_up_rate |-> 70, close_rate |-> 30]

AddedChannel ==
    [monthly_leads |-> 500, cpl |-> 50, contact_rate |-> 60, meeting_rate |-> 30,
     show_up_rate |-> 70, close_rate |-> 25, enabled |-> TRUE]

ChannelPool ==
    { DefaultChannel,
      AddedChannel,
      [AddedChannel EXCEPT !.enabled = FALSE],
      [AddedChannel EXCEPT !.monthly_leads = 200, !.close_rate = 50, !.cpl = 20],
      [AddedChannel EXCEPT !.monthly_leads = 200, !.close_rate = 0],
      [DefaultChannel EXCEPT !.monthly_leads = 0] }

ChannelLists == UNION { [1..n -> ChannelPool] : n \in 0..MaxChannels }

EconPool ==
    { DealEconomics(R(50000), R(p), policy) : p \in {70, 100}, policy \in {"upfront", "full"} }

MaxRuns == 3

MaxSessionChannels == 2

\* the values a user gives to the widgets of a channel
ChannelEdits ==
    {<<"close_rate", 0>>, <<"monthly_leads", 500>>, <<"enabled", FALSE>>,
     <<"enabled", TRUE>>}

\* the values a user gives to the deal inputs of tab 5
DealEdits ==
    {<<"upfront_payment_pct", 100>>, <<"upfront_payment_pct", 0>>,
     <<"avg_deal_value", 10000>>,
     <<"sub_term_months", 24>>, <<"contract_commission_pct", 50>>}

\* ------------------------------------------------------------------------
\* Spec: the session; every user interaction runs the script
\* ------------------------------------------------------------------------
Init ==
    /\ SessionInit
    /\ call = NoCall
    /\ result = NoResult

\* an interaction that changes nothing the model holds (any other widget)
Interact ==
    /\ runs < MaxRuns
    /\ AfterRun(session_state, ScriptRun(session_state, widgets, cache))
    /\ runs' = runs + 1
    /\ UNCHANGED fnVars

\* the user changes a widget of channel i (slider, number input, checkbox)
EditChannel ==
    /\ runs < MaxRuns
    /\ \E i \in 1..Len(session_state.gtm_channels), e \in ChannelEdits :
         LET id == session_state.gtm_channels[i].id
         IN  /\ id \in DOMAIN widgets
             /\ widgets[id][e[1]] # e[2]
             /\ AfterRun(session_state,
                   ScriptRun(session_state,
                             [widgets EXCEPT ![id] = Put(widgets[id], e[1], e[2])],
                             cache))
    /\ runs' = runs + 1
    /\ UNCHANGED fnVars

\* the channel "Add Channel" appends
NewChannel(n) ==
    [id |-> n, name |-> "Channel", monthly_leads |-> 500, cpl |-> 50,
     contact_rate |-> 60, meeting_rate |-> 30, show_up_rate |-> 70, close_rate |-> 25,
     enabled |-> TRUE]

\* "Add Channel": the run reaches the button, appends and calls st.rerun()
AddChannel ==
    /\ runs < MaxRuns
    /\ Len(session_state.gtm_channels) < MaxSessionChannels
    /\ LET ss1 == initialize_session_state(session_state)
           top == TopOfScript(ss1, cache)
           ss2 == Put(ss1, "gtm_channels",
                      Append(ss1.gtm_channels, NewChannel(Len(ss1.gtm_channels) + 1)))
       IN  AfterRun(ss2, ScriptRun(ss2, widgets, top.cache))
    /\ runs' = runs + 1
    /\ UNCHANGED fnVars

\* "Remove Last": shown when there is more than one channel
RemoveLast ==
    /\ runs < MaxRuns
    /\ Len(session_state.gtm_channels) > 1
    /\ LET ss1 == initialize_session_state(session_state)
           top == TopOfScript(ss1, cache)
           ss2 == Put(ss1, "gtm_channels",
                      SubSeq(ss1.gtm_channels, 1, Len(ss1.gtm_channels) - 1))
       IN  AfterRun(ss2, ScriptRun(ss2, widgets, top.cache))
    /\ runs' = runs + 1
    /\ UNCHANGED fnVars

\* the user changes a deal input that the last run rendered
EditDealInput ==
    /\ runs < MaxRuns
    /\ \E e \in DealEdits :
         /\ e[1] \in DOMAIN MethodInputs(session_state.deal_calc_method)
                       \cup {"upfront_payment_pct"}
         /\ Get(session_state, e[1], -1) # e[2]
         /\ LET ss == Put(session_state, e[1], e[2])
            IN  AfterRun(ss, ScriptRun(ss, widgets, cache))
    /\ runs' = runs + 1
    /\ UNCHANGED fnVars

\* the methods the session switches between: the three whose widget defaults
\* are round amounts (the insurance formula is exercised by SpecResolve)
SessionCalcMethods == DealCalcMethods \ {"Insurance (Premium-Based)"}

\* the user picks another deal value calculation method
SelectCalcMethod ==
    /\ runs < MaxRuns
    /\ \E m \in SessionCalcMethods :
         /\ m # session_state.deal_calc_method
         /\ LET ss == Put(session_state, "deal_calc_method", m)
            IN  AfterRun(ss, ScriptRun(ss, widgets, cache))
    /\ runs' = runs + 1
    /\ UNCHANGED fnVars

\* the user picks the other option of "Calculate Commissions From"
SelectCommissionPolicy ==
    /\ runs < MaxRuns
    /\ \E sel \in {"Upfront Cash Only", "Full Deal Value"} :
         /\ sel # session_state.commission_policy_selector
         /\ LET ss == Put(session_state, "commission_policy_selector", sel)
            IN  AfterRun(ss, ScriptRun(ss, widgets, cache))
    /\ runs' = runs + 1
    /\ UNCHANGED fnVars

\* an entry of the cache reaches its ttl of 300 seconds
CacheExpire ==
    /\ \E k \in DOMAIN cache : cache' = Del(cache, {k})
    /\ UNCHANGED <<session_state, widgets, channels_json, gtm_metrics, deal_econ,
                   comm_calc, marketing_spend, pnl_data, unit_econ, alerts,
                   payment_splits, runs, call, result>>

Next ==
    \/ Interact
    \/ EditChannel
    \/ AddChannel
    \/ RemoveLast
    \/ EditDealInput
    \/ SelectCalcMethod
    \/ SelectCommissionPolicy
    \/ CacheExpire

Spec == Init /\ [][Next]_vars

\* ------------------------------------------------------------------------
\* SpecGtm: calculate_gtm_metrics_cached applied to every bounded channel list
\* ------------------------------------------------------------------------
InitGtm ==
    /\ call \in { [fn |-> "calculate_gtm_metrics_cached", channels |-> cs, econ |-> e] :
                    cs \in ChannelLists, e \in EconPool }
    /\ result = NoResult
    /\ SessionInit

CallGtm ==
    /\ call.fn = "calculate_gtm_metrics_cached"
    /\ ~result.done
    /\ result' = Returned(calculate_gtm_metrics(call.channels, call.econ))
    /\ UNCHANGED <<call, sessionVars>>

NextGtm == CallGtm

SpecGtm == InitGtm /\ [][NextGtm]_vars

GtmReturned == call.fn = "calculate_gtm_metrics_cached" /\ result.done

\* sums over the enabled channels, taken channel by channel
EnabledChannels(channels) ==
    SelectSeq(channels, LAMBDA ch : "enabled" \notin DOMAIN ch \/ ch.enabled)

RECURSIVE SumField(_, _, _)
SumField(channels, econ, field) ==
    IF channels = <<>> THEN Zero
    ELSE RAdd(ChannelFunnel(Head(channels), econ)[field],
              SumField(Tail(channels), econ, field))

EnabledSum(channels, econ, field) == SumField(EnabledChannels(channels), econ, field)

Ratio(num, den) == IF RGt(den, Zero) THEN RDiv(num, den) ELSE Zero

WithoutDisabled(channels) == EnabledChannels(channels)

AggregateKeys ==
    {"monthly_leads", "monthly_contacts", "monthly_meetings_scheduled",
     "monthly_meetings_held", "monthly_sales", "monthly_revenue_immediate",
     "blended_close_rate"}

SameAggregates(r1, r2) ==
    /\ \A k \in AggregateKeys : r1[k] = r2[k]
    /\ Get(r1, "total_marketing_spend", Zero) = Get(r2, "total_marketing_spend", Zero)
    /\ Get(r1, "cost_per_sale", Zero) = Get(r2, "cost_per_sale", Zero)

\* C4: a disabled channel contributes nothing: every aggregate, blended rate,
\* the channel breakdown and the marketing spend of the P&L are those of
\* the list with the disabled channels removed, and equal the sums over the
\* channels that are enabled or carry no 'enabled' key.
C4_DisabledExcluded ==
    GtmReturned =>
        LET cs == call.channels
            e  == call.econ
            r  == result.value
            r2 == calculate_gtm_metrics(WithoutDisabled(cs), e)
        IN  /\ SameAggregates(r, r2)
            /\ Get(r, "channels_breakdown", <<>>) = Get(r2, "channels_breakdown", <<>>)
            /\ marketing_spend_of(cs) = marketing_spend_of(WithoutDisabled(cs))
            /\ r.monthly_leads = EnabledSum(cs, e, "leads")
            /\ r.monthly_contacts = EnabledSum(cs, e, "contacts")
            /\ r.monthly_meetings_scheduled = EnabledSum(cs, e, "meetings_sched")
            /\ r.monthly_meetings_held = EnabledSum(cs, e, "meetings_held")
            /\ r.monthly_sales = EnabledSum(cs, e, "sales")
            /\ r.monthly_revenue_immediate = EnabledSum(cs, e, "revenue")
            /\ Get(r, "total_marketing_spend", Zero) = EnabledSum(cs, e, "spend")
            /\ marketing_spend_of(cs) = EnabledSum(cs, e, "spend")

\* a list holding a disabled channel with leads, an enabled one and one
\* without the key
C4_Witness ==
    /\ GtmReturned
    /\ \E i, j, k \in 1..Len(call.channels) :
         /\ "enabled" \in DOMAIN call.channels[i] /\ ~call.channels[i].enabled
         /\ call.channels[i].monthly_leads > 0 /\ call.channels[i].close_rate > 0
         /\ "enabled" \in DOMAIN call.channels[j] /\ call.channels[j].enabled
         /\ "enabled" \notin DOMAIN call.channels[k]
         /\ call.channels[k].monthly_leads > 0

ListPermutations(n) == { p \in [1..n -> 1..n] : \A i, j \in 1..n : p[i] = p[j] => i = j }

Permuted(channels, p) == [i \in 1..Len(channels) |-> channels[p[i]]]

\* C5: aggregation is order-independent: every permutation of the channel
\* list gives the same totals, the same cost per sale and the same blended
\* close rate.
C5_OrderIndependent ==
    GtmReturned =>
        \A p \in ListPermutations(Len(call.channels)) :
            SameAggregates(result.value,
                           calculate_gtm_metrics(Permuted(call.channels, p), call.econ))

\* three enabled channels of pairwise different volumes
C5_Witness ==
    /\ GtmReturned
    /\ Len(call.channels) = 3
    /\ \A i \in 1..3 : IsEnabled(call.channels[i]) /\ call.channels[i].close_rate > 0
    /\ \A i, j \in 1..3 : i # j => call.channels[i].monthly_leads # call.channels[j].monthly_leads

\* ------------------------------------------------------------------------
\* SpecSplit: calculate_deal_cash_splits applied to bounded inputs
\* ------------------------------------------------------------------------
DealValues == {0, 1, 10000, 17496, 50000}

UpfrontPcts == 0..100

InitSplit ==
    /\ call \in { [fn |-> "calculate_deal_cash_splits", deal_value |-> R(v),
                   upfront_pct |-> R(p)] : v \in DealValues, p \in UpfrontPcts }
    /\ result = NoResult
    /\ SessionInit

CallSplit ==
    /\ call.fn = "calculate_deal_cash_splits"
    /\ ~result.done
    /\ result' = Returned(calculate_deal_cash_splits(call.deal_value, call.upfront_pct))
    /\ UNCHANGED <<call, sessionVars>>

NextSplit == CallSplit

SpecSplit == InitSplit /\ [][NextSplit]_vars

SplitReturned == call.fn = "calculate_deal_cash_splits" /\ result.done

\* C2: the cash split conserves the deal value: upfront_cash + deferred_cash
\* is the deal value, neither part is negative, and deferred_pct is
\* 100 - upfront_pct.
C2_Conservation ==
    SplitReturned =>
        LET r == result.value
        IN  /\ RAdd(r.upfront_cash, r.deferred_cash) = call.deal_value
            /\ RGe(r.upfront_cash, Zero)
            /\ RGe(r.deferred_cash, Zero)
            /\ RAdd(r.deferred_pct, call.upfront_pct) = R(100)

\* a split of a positive deal value into two positive, unequal parts
C2_Witness ==
    /\ SplitReturned
    /\ call.deal_value = R(50000)
    /\ call.upfront_pct = R(70)
    /\ result.value.upfront_cash = R(35000)
    /\ result.value.deferred_cash = R(15000)

\* ------------------------------------------------------------------------
\* SpecFlow: render_commission_flow for bounded head counts
\* ------------------------------------------------------------------------
MaxHeadcount == 4

FlowSessions ==
    { [Defaults EXCEPT !.num_closers_main = c, !.num_setters_main = t,
                       !.num_managers_main = m] :
        c \in 0..MaxHeadcount, t \in 0..MaxHeadcount, m \in {0, 2} }

InitFlow ==
    /\ call \in { [fn |-> "render_commission_flow", flow_view |-> v, session |-> ss,
                   monthly_sales |-> n, econ |-> e] :
                    v \in FlowViews, ss \in FlowSessions,
                    n \in {Zero, Rat(273, 5)}, e \in EconPool }
    /\ result = NoResult
    /\ SessionInit

CallFlow ==
    /\ call.fn = "render_commission_flow"
    /\ ~result.done
    /\ result' = Returned(render_commission_flow(call.flow_view, call.session,
                              [monthly_sales |-> call.monthly_sales], call.econ))
    /\ UNCHANGED <<call, sessionVars>>

NextFlow == CallFlow

SpecFlow == InitFlow /\ [][NextFlow]_vars

FlowReturned == call.fn = "render_commission_flow" /\ result.done

\* C7: for every role with a head count of at least 1, the per-person amount
\* is the whole pool of the role in Per Deal view and the pool divided by
\* the head count in Monthly Total view.
C7_PerPersonByView ==
    FlowReturned =>
        LET r == result.value
        IN  \A role \in {"closer", "setter", "manager"} :
              r.counts[role] >= 1 =>
                /\ role \in DOMAIN r.per_person
                /\ call.flow_view = "Per Deal" =>
                     r.per_person[role] = r.pools[role]
                /\ call.flow_view = "Monthly Total" =>
                     RMul(r.per_person[role], R(r.counts[role])) = r.pools[role]

\* four closers and a positive pool in Per Deal view: each closer is shown
\* the undivided pool
C7_Witness ==
    /\ FlowReturned
    /\ call.flow_view = "Per Deal"
    /\ result.value.counts["closer"] = 4
    /\ RGt(result.value.pools["closer"], Zero)
    /\ result.value.per_person["closer"] = result.value.pools["closer"]

\* ------------------------------------------------------------------------
\* Properties of the session (Spec) and of the revenue base (SpecGtm)
\* ------------------------------------------------------------------------
\* C3 (as claimed): what the run's call of calculate_gtm_metrics_cached
\* returned is what an uncached computation on the same channel list with
\* the deal economics of that moment returns.
C3_CacheFollowsDealEconomics ==
    gtm_metrics = calculate_gtm_metrics(channels_json, deal_econ)

OtherPolicy(econ) ==
    [econ EXCEPT !.commission_policy = IF @ = "upfront" THEN "full" ELSE "upfront"]

NoDivError(rec, keys) == \A k \in keys \cap DOMAIN rec : IsNum(rec[k])

GtmNumberKeys ==
    AggregateKeys \cup {"total_marketing_spend", "cost_per_sale", "blended_ltv_cac"}

\* C8 (as claimed): with no sale the unit economics shown have ltv_cac = 0
\* and payback_months = 999, and nothing in the P&L or the GTM metrics is
\* the result of a division by zero.
C8_ZeroSalesSentinels ==
    gtm_metrics.monthly_sales = Zero =>
        /\ unit_econ.ltv_cac = Zero
        /\ unit_econ.payback_months = R(PaybackSentinel)
        /\ NoDivError(pnl_data, DOMAIN pnl_data)
        /\ NoDivError(gtm_metrics, GtmNumberKeys)

\* C9 (as claimed): the metrics a run produced are those of the channel
\* configuration the run leaves in the session, the edit included.
C9_RunUsesEditedChannels ==
    /\ gtm_metrics.monthly_leads = EnabledSum(session_state.gtm_channels, deal_econ, "leads")
    /\ gtm_metrics.monthly_sales = EnabledSum(session_state.gtm_channels, deal_econ, "sales")
    /\ marketing_spend = marketing_spend_of(session_state.gtm_channels)
    /\ pnl_data.marketing = marketing_spend_of(session_state.gtm_channels)

\* the deal value and contract length of the selected method, from the
\* method's inputs in the session
ResolvedDealValue(ss) ==
    IF ss.deal_calc_method = "Insurance (Premium-Based)"
    THEN RDiv(R(ss.monthly_premium * 12 * ss.insurance_contract_years
                  * ss.insurance_commission_rate), R(1000))
    ELSE IF ss.deal_calc_method = "Subscription (MRR)"
    THEN R(ss.mrr * ss.sub_term_months)
    ELSE IF ss.deal_calc_method = "Commission % of Contract"
    THEN RDiv(R(ss.total_contract_value * ss.contract_commission_pct), R(1000))
    ELSE R(ss.avg_deal_value)

ResolvedContractLength(ss) ==
    IF ss.deal_calc_method = "Insurance (Premium-Based)"
    THEN ss.insurance_contract_years * 12
    ELSE IF ss.deal_calc_method = "Subscription (MRR)"
    THEN ss.sub_term_months
    ELSE ss.contract_length_months

\* C10: at the end of every run the calculated deal value and contract
\* length are those of the selected method on its current inputs, and the
\* cash split shown is the split of that value.
C10_NoStaleDealValue ==
    /\ session_state.calculated_deal_value = ResolvedDealValue(session_state)
    /\ session_state.calculated_contract_length = ResolvedContractLength(session_state)
    /\ payment_splits.upfront_cash =
          RDiv(RMul(session_state.calculated_deal_value,
                    R(session_state.upfront_payment_pct)), R(100))
    /\ RAdd(payment_splits.upfront_cash, payment_splits.deferred_cash) =
          session_state.calculated_deal_value

\* the method was switched to Subscription and its term edited
C10_Witness ==
    /\ session_state.deal_calc_method = "Subscription (MRR)"
    /\ session_state.sub_term_months = 24
    /\ session_state.calculated_deal_value = R(120000)
    /\ session_state.calculated_contract_length = 24
    /\ payment_splits.upfront_cash = R(84000)

\* ------------------------------------------------------------------------
\* SpecResolve: the deal value calculator of tab 5 applied to bounded inputs
\* ------------------------------------------------------------------------
\* the values the number inputs of each method can hold (commission rates
\* in tenths of a percent)
ResolverInputs(method) ==
    IF method = "Insurance (Premium-Based)"
    THEN [monthly_premium : {0, 1000, 3000},
          insurance_commission_rate : {0, 27, 100, 1000},
          insurance_contract_years : {1, 18}]
    ELSE IF method = "Subscription (MRR)"
    THEN [mrr : {0, 1, 5000}, sub_term_months : {1, 12, 24, 60}]
    ELSE IF method = "Commission % of Contract"
    THEN [total_contract_value : {0, 5000, 100000},
          contract_commission_pct : {0, 5, 100, 1000},
          contract_length_months : {1, 12, 60}]
    ELSE [avg_deal_value : {0, 10000, 50000}, contract_length_months : {1, 12, 60}]

InitResolve ==
    /\ call \in UNION { { [fn |-> "deal_value_calculator", method |-> m, inputs |-> in] :
                            in \in ResolverInputs(m) } : m \in DealCalcMethods }
    /\ result = NoResult
    /\ SessionInit

CallResolve ==
    /\ call.fn = "deal_value_calculator"
    /\ ~result.done
    /\ result' = Returned(DealValueCalculator(call.inputs, call.method))
    /\ UNCHANGED <<call, sessionVars>>

NextResolve == CallResolve

SpecResolve == InitResolve /\ [][NextResolve]_vars

ResolveReturned == call.fn = "deal_value_calculator" /\ result.done

\* value = num / den, by cross-multiplication on the integers
IsQuotient(value, num, den) == value[2] # 0 /\ value[1] * den = num * value[2]

\* C11: the calculator returns, per method: Direct Value -> the entered deal
\* value and contract length; Insurance -> premium x 12 x years x rate/100
\* and years x 12; Subscription -> mrr x term and the term; Commission of
\* contract -> contract value x commission/100 and the entered length.
C11_ResolverFormulas ==
    ResolveReturned =>
        LET in == call.inputs
            total  == result.value[1]
            length == result.value[2]
        IN  /\ call.method = "Direct Value" =>
                 /\ total = <<in.avg_deal_value, 1>>
                 /\ length = in.contract_length_months
            /\ call.method = "Insurance (Premium-Based)" =>
                 /\ IsQuotient(total, in.monthly_premium * 12 * in.insurance_contract_years
                                        * in.insurance_commission_rate, 1000)
                 /\ length = in.insurance_contract_years * 12
            /\ call.method = "Subscription (MRR)" =>
                 /\ total = <<in.mrr * in.sub_term_months, 1>>
                 /\ length = in.sub_term_months
            /\ call.method = "Commission % of Contract" =>
                 /\ IsQuotient(total, in.total_contract_value * in.contract_commission_pct,
                               1000)
                 /\ length = in.contract_length_months

\* the insurance defaults: 3000 a month, 18 years at 2.7 % give 17,496 over
\* 216 months
C11_Witness ==
    /\ ResolveReturned
    /\ call.method = "Insurance (Premium-Based)"
    /\ call.inputs = [monthly_premium |-> 3000, insurance_commission_rate |-> 27,
                      insurance_contract_years |-> 18]
    /\ result.value = << <<17496, 1>>, 216 >>

\* ------------------------------------------------------------------------
\* SpecCost: tab 1, the cost input point of a channel and the reverse
\* calculation of leads and cost per lead
\* ------------------------------------------------------------------------
CostPoints ==
    {"Cost per Lead", "Cost per Contact", "Cost per Meeting", "Cost per Sale",
     "Total Budget"}

\* int(x) for x >= 0
Trunc(r) == r[1] \div r[2]

\* "# Reverse calculate leads based on cost point and conversion rates" and
\* the two stores that follow; cost is the amount entered at the cost point,
\* quantity the target (or lead count) entered next to it, the rates are the
\* slider values in percent
ReverseCalculate(cost_point, cost, quantity, ch) ==
    With(Rate(ch.contact_rate), LAMBDA contact_rate :
    With(RMul(RMul(contact_rate, Rate(ch.meeting_rate)), Rate(ch.show_up_rate)),
         LAMBDA conversion_to_meeting :
    With(RMul(conversion_to_meeting, Rate(ch.close_rate)), LAMBDA full_conversion :
        IF cost_point = "Cost per Contact"
        THEN [monthly_leads |-> Trunc(IF RGt(contact_rate, Zero)
                                    THEN RDiv(R(quantity), contact_rate) ELSE R(quantity)),
              cpl |-> Trunc(IF RGt(contact_rate, Zero)
                          THEN RDiv(R(cost), contact_rate) ELSE R(cost))]
        ELSE IF cost_point = "Cost per Meeting"
        THEN [monthly_leads |-> Trunc(IF RGt(conversion_to_meeting, Zero)
                                    THEN RDiv(R(quantity), conversion_to_meeting)
                                    ELSE R(quantity * 5)),
              cpl |-> Trunc(IF RGt(conversion_to_meeting, Zero)
                          THEN RDiv(R(cost), conversion_to_meeting) ELSE R(cost))]
        ELSE IF cost_point = "Cost per Sale"
        THEN [monthly_leads |-> Trunc(IF RGt(full_conversion, Zero)
                                    THEN RDiv(R(quantity), full_conversion)
                                    ELSE R(quantity * 20)),
              cpl |-> Trunc(IF RGt(full_conversion, Zero)
                          THEN RDiv(R(cost), full_conversion) ELSE R(cost))]
        ELSE IF cost_point = "Total Budget"
        THEN [monthly_leads |-> quantity,
              cpl |-> Trunc(IF quantity > 0 THEN Rat(cost, quantity) ELSE Zero)]
        ELSE [monthly_leads |-> quantity, cpl |-> cost])))

CostRates ==
    [contact_rate : {0, 50, 60, 65}, meeting_rate : {0, 30}, show_up_rate : {70},
     close_rate : {0, 25}]

InitCost ==
    /\ call \in { [fn |-> "reverse_calculate", cost_point |-> cp, cost |-> c,
                   quantity |-> q, rates |-> r] :
                    cp \in CostPoints, c \in {0, 75, 200}, q \in {1, 20},
                    r \in CostRates }
    /\ result = NoResult
    /\ SessionInit

CallCost ==
    /\ call.fn = "reverse_calculate"
    /\ ~result.done
    /\ result' = Returned(ReverseCalculate(call.cost_point, call.cost, call.quantity,
                                          call.rates))
    /\ UNCHANGED <<call, sessionVars>>

NextCost == CallCost

SpecCost == InitCost /\ [][NextCost]_vars

CostReturned == call.fn = "reverse_calculate" /\ result.done

\* the cumulative conversion rate to the stage at which the cost is entered
CumulativeConversion(cost_point, r) ==
    IF cost_point = "Cost per Contact" THEN Rat(r.contact_rate, 100)
    ELSE IF cost_point = "Cost per Meeting"
    THEN Rat(r.contact_rate * r.meeting_rate * r.show_up_rate, 1000000)
    ELSE Rat(r.contact_rate * r.meeting_rate * r.show_up_rate * r.close_rate, 100000000)

\* C12 (as claimed): for a cost entered per contact, per meeting or per
\* sale, the cost per lead stored for the channel is the entered cost divided
\* by the cumulative conversion rate to that stage, and 0 when that
\* cumulative conversion is 0.
C12_EffectiveCostPerLead ==
    (CostReturned /\ call.cost_point \in {"Cost per Contact", "Cost per Meeting",
                                          "Cost per Sale"}) =>
        LET conv == CumulativeConversion(call.cost_point, call.rates)
        IN  IF conv = Zero
            THEN result.value.cpl = 0
            ELSE R(result.value.cpl) = RDiv(R(call.cost), conv)

\* the funnel of the channel as stored: the entered rates with the
\* back-solved lead count and cost per lead
StoredFunnel ==
    ChannelFunnel([contact_rate |-> call.rates.contact_rate,
                   meeting_rate |-> call.rates.meeting_rate,
                   show_up_rate |-> call.rates.show_up_rate,
                   close_rate   |-> call.rates.close_rate,
                   monthly_leads |-> result.value.monthly_leads,
                   cpl           |-> result.value.cpl],
                  DealEconomics(R(50000), R(70), "upfront"))

StageVolume(cost_point, f) ==
    IF cost_point = "Cost per Contact" THEN f.contacts
    ELSE IF cost_point = "Cost per Meeting" THEN f.meetings_held
    ELSE f.sales

\* C24 (as claimed): for a cost entered per contact, per meeting or per
\* sale with a positive cumulative conversion, the funnel computed from the
\* back-solved leads and cost per lead reaches the entered target at that
\* stage, and its spend divided by the volume of that stage is the entered
\* unit cost.
C24_CostRoundTrip ==
    (/\ CostReturned
     /\ call.cost_point \in {"Cost per Contact", "Cost per Meeting", "Cost per Sale"}
     /\ RGt(CumulativeConversion(call.cost_point, call.rates), Zero)) =>
        /\ StageVolume(call.cost_point, StoredFunnel) = R(call.quantity)
        /\ RDiv(StoredFunnel.spend, StageVolume(call.cost_point, StoredFunnel))
              = R(call.cost)

\* (the part of C24 that does hold where int() truncates nothing: the
\* target volume is reached) 20 contacts at 75 each with a contact rate of
\* 50 %: 40 leads are stored and give 20 contacts, at 150 per lead
C24_TargetReachedSpendNot ==
    (/\ CostReturned
     /\ call.cost_point = "Cost per Contact"
     /\ call.rates.contact_rate = 50 /\ call.cost = 75 /\ call.quantity = 20) =>
        /\ StoredFunnel.contacts = R(20)
        /\ result.value.cpl = 150
        /\ RDiv(StoredFunnel.spend, StoredFunnel.contacts) = R(300)

\* the channel list holding the one channel as stored
StoredChannels ==
    << [contact_rate |-> call.rates.contact_rate,
        meeting_rate |-> call.rates.meeting_rate,
        show_up_rate |-> call.rates.show_up_rate,
        close_rate   |-> call.rates.close_rate,
        monthly_leads |-> result.value.monthly_leads,
        cpl           |-> result.value.cpl] >>

\* C25 (as claimed): for a channel configured with 'Total Budget' and
\* leads > 0, the marketing spend that the aggregated metrics and the P&L
\* use (stored monthly_leads x stored cpl) is the entered total budget.
C25_BudgetIsSpend ==
    (CostReturned /\ call.cost_point = "Total Budget" /\ call.quantity > 0) =>
        /\ marketing_spend_of(StoredChannels) = R(call.cost)
        /\ calculate_gtm_metrics(StoredChannels,
                                 DealEconomics(R(50000), R(70), "upfront")
                                ).total_marketing_spend = R(call.cost)

\* ------------------------------------------------------------------------
\* Funnel ordering (SpecGtm)
\* ------------------------------------------------------------------------
NonIncreasing(leads, contacts, sched, held, sales) ==
    /\ RGe(leads, contacts)
    /\ RGe(contacts, sched)
    /\ RGe(sched, held)
    /\ RGe(held, sales)
    /\ RGe(sales, Zero)

\* C13: for every channel (rates between 0 and 1, leads >= 0) the funnel
\* volumes do not increase from stage to stage, leads >= contacts >=
\* meetings scheduled >= meetings held >= sales >= 0, and the aggregated
\* totals are ordered in the same way.
C13_FunnelNonIncreasing ==
    GtmReturned =>
        /\ \A i \in 1..Len(call.channels) :
              LET f == ChannelFunnel(call.channels[i], call.econ)
              IN  NonIncreasing(f.leads, f.contacts, f.meetings_sched, f.meetings_held,
                                f.sales)
        /\ LET r == result.value
           IN  NonIncreasing(r.monthly_leads, r.monthly_contacts,
                             r.monthly_meetings_scheduled, r.monthly_meetings_held,
                             r.monthly_sales)

\* two enabled channels that sell: every stage of the totals is strictly
\* below the one before
C13_Witness ==
    /\ GtmReturned
    /\ Len(EnabledChannels(call.channels)) = 2
    /\ RGt(result.value.monthly_leads, result.value.monthly_contacts)
    /\ RGt(result.value.monthly_contacts, result.value.monthly_meetings_scheduled)
    /\ RGt(result.value.monthly_meetings_scheduled, result.value.monthly_meetings_held)
    /\ RGt(result.value.monthly_meetings_held, result.value.monthly_sales)
    /\ RGt(result.value.monthly_sales, Zero)

\* C18 (as claimed): for a role whose head count is 0 the monthly per-person
\* commission is pool / max(count, 1): the role is shown with a per-person
\* amount equal to its pool, it is not left out.
C18_ZeroHeadcountShowsPool ==
    (FlowReturned /\ call.flow_view = "Monthly Total") =>
        \A role \in {"closer", "setter", "manager"} :
            result.value.counts[role] = 0 =>
                /\ role \in DOMAIN result.value.per_person
                /\ result.value.per_person[role] = result.value.pools[role]

\* ------------------------------------------------------------------------
\* SpecUnit: calculate_unit_economics_cached applied to bounded inputs
\* ------------------------------------------------------------------------
UnitInputs ==
    [deal_value    : {R(0), R(17496), R(50000)},
     upfront_pct   : {R(0), R(70), R(100)},
     grr           : {Zero, Rat(9, 10), R(1)},
     cost_per_sale : {Zero, R(5000), Rat(250000, 273)}]

InitUnit ==
    /\ call \in { [fn |-> "calculate_unit_economics_cached", args |-> a] :
                    a \in UnitInputs }
    /\ result = NoResult
    /\ SessionInit

CallUnit ==
    /\ call.fn = "calculate_unit_economics_cached"
    /\ ~result.done
    /\ result' = Returned(calculate_unit_economics_cached(
                              call.args.deal_value, call.args.upfront_pct,
                              call.args.grr, call.args.cost_per_sale))
    /\ UNCHANGED <<call, sessionVars>>

NextUnit == CallUnit

SpecUnit == InitUnit /\ [][NextUnit]_vars

UnitReturned == call.fn = "calculate_unit_economics_cached" /\ result.done

\* C14: calculate_unit_economics_cached returns ltv = upfront_cash +
\* deferred_cash x grr, ltv_cac = ltv / cost_per_sale when cost_per_sale > 0
\* and 0 otherwise, payback_months = cost_per_sale / (upfront_cash / 12) when
\* upfront_cash > 0 and 999 otherwise, and cac = cost_per_sale; upfront_cash
\* and deferred_cash are the cash split of the deal value.
C14_UnitEconomics ==
    UnitReturned =>
        LET r == result.value
            a == call.args
            split == calculate_deal_cash_splits(a.deal_value, a.upfront_pct)
        IN  /\ r.upfront_cash = split.upfront_cash
            /\ r.deferred_cash = split.deferred_cash
            /\ r.ltv = RAdd(r.upfront_cash, RMul(r.deferred_cash, a.grr))
            /\ r.cac = a.cost_per_sale
            /\ IF RGt(a.cost_per_sale, Zero)
               THEN r.ltv_cac = RDiv(r.ltv, a.cost_per_sale)
               ELSE r.ltv_cac = Zero
            /\ IF RGt(r.upfront_cash, Zero)
               THEN /\ IsNum(r.payback_months)
                    /\ RMul(r.payback_months, RDiv(r.upfront_cash, R(12))) = a.cost_per_sale
               ELSE r.payback_months = R(999)
            /\ IsNum(r.ltv) /\ IsNum(r.ltv_cac)

\* 50000 at 70 % upfront with 90 % retention and 5000 per sale: ltv 48500,
\* ltv:cac 9.7, payback 12/7 months
C14_Witness ==
    /\ UnitReturned
    /\ call.args = [deal_value |-> R(50000), upfront_pct |-> R(70),
                    grr |-> Rat(9, 10), cost_per_sale |-> R(5000)]
    /\ result.value.ltv = R(48500)
    /\ result.value.ltv_cac = Rat(97, 10)
    /\ result.value.payback_months = Rat(12, 7)

\* ------------------------------------------------------------------------
\* SpecPnl: calculate_pnl_cached applied to bounded inputs, among them zero
\* revenue and government fees above the revenue
\* ------------------------------------------------------------------------
PnlInputs ==
    [revenue     : {R(0), R(1000), R(100000), Rat(66885, 2)},
     team_base   : {R(0), R(20000)},
     commissions : {R(0), R(30000)},
     marketing   : {R(0), R(25000)},
     opex        : {R(0), R(35000)},
     gov_fees    : {R(0), R(1000), R(10000), Rat(66885, 20)}]

InitPnl ==
    /\ call \in { [fn |-> "calculate_pnl_cached", args |-> a] : a \in PnlInputs }
    /\ result = NoResult
    /\ SessionInit

CallPnl ==
    /\ call.fn = "calculate_pnl_cached"
    /\ ~result.done
    /\ result' = Returned(calculate_pnl_cached(
                              call.args.revenue, call.args.team_base,
                              call.args.commissions, call.args.marketing,
                              call.args.opex, call.args.gov_fees))
    /\ UNCHANGED <<call, sessionVars>>

NextPnl == CallPnl

SpecPnl == InitPnl /\ [][NextPnl]_vars

PnlReturned == call.fn = "calculate_pnl_cached" /\ result.done

\* C15: every P&L result satisfies net_revenue = gross_revenue - gov_fees,
\* cogs = team_base + commissions, gross_profit = net_revenue - cogs,
\* total_opex = marketing + opex and ebitda = gross_profit - total_opex,
\* where gross_revenue, gov_fees, team_base, commissions, marketing and opex
\* are the arguments.
C15_PnlIdentities ==
    PnlReturned =>
        LET r == result.value
            a == call.args
        IN  /\ r.gross_revenue = a.revenue /\ r.gov_fees = a.gov_fees
            /\ r.team_base = a.team_base /\ r.commissions = a.commissions
            /\ r.marketing = a.marketing /\ r.opex = a.opex
            /\ RAdd(r.net_revenue, r.gov_fees) = r.gross_revenue
            /\ r.cogs = RAdd(r.team_base, r.commissions)
            /\ RAdd(r.gross_profit, r.cogs) = r.net_revenue
            /\ r.total_opex = RAdd(r.marketing, r.opex)
            /\ RAdd(r.ebitda, r.total_opex) = r.gross_profit

\* revenue 100000 with fees 10000, cogs 50000 and operating costs 60000:
\* net 90000, gross profit 40000, EBITDA -20000
C15_Witness ==
    /\ PnlReturned
    /\ call.args = [revenue |-> R(100000), team_base |-> R(20000),
                    commissions |-> R(30000), marketing |-> R(25000),
                    opex |-> R(35000), gov_fees |-> R(10000)]
    /\ result.value.net_revenue = R(90000)
    /\ result.value.gross_profit = R(40000)
    /\ result.value.ebitda = R(0 - 20000)

BoundaryDealValues == {0 - 1000, 0, 50000}

BoundaryUpfrontPcts == (0 - 10)..110

InitBoundary ==
    /\ call \in { [fn |-> "calculate_deal_cash_splits", deal_value |-> R(v),
                   upfront_pct |-> R(p)] :
                    v \in BoundaryDealValues, p \in BoundaryUpfrontPcts }
    /\ result = NoResult
    /\ SessionInit

SpecBoundary == InitBoundary /\ [][NextSplit]_vars

InDomain(deal_value, upfront_pct) ==
    /\ RGe(deal_value, Zero)
    /\ RGe(upfront_pct, Zero)
    /\ RLe(upfront_pct, R(100))

\* C17 (as claimed): out-of-domain deal inputs (a negative deal value, an
\* upfront_pct outside [0,100]) are rejected at the cash-split boundary and
\* never produce a cash split: every split returned was computed from
\* arguments inside the domain.
C17_OutOfDomainRejected ==
    SplitReturned => InDomain(call.deal_value, call.upfront_pct)

\* ------------------------------------------------------------------------
\* SpecImport: the session with "Apply Uploaded Config" and "Apply Pasted
\* Config" of the configuration tab
\* ------------------------------------------------------------------------
\* de.get(name, fallback) for the names of 'deal_economics'; the session key
\* is the name (rates in tenths of a percent, grr_rate 0.9 as 90/100)
DealEconomicsFallbacks ==
    [avg_deal_value |-> 50000, contract_length_months |-> 12,
     upfront_payment_pct |-> 70, deferred_timing_months |-> 18,
     commission_policy |-> "upfront", government_cost_pct |-> 10,
     grr_rate |-> Rat(90, 100), deal_calc_method |-> "Direct Value",
     monthly_premium |-> 3000, insurance_commission_rate |-> 27,
     insurance_contract_years |-> 18, mrr |-> 5000, sub_term_months |-> 12,
     total_contract_value |-> 100000, contract_commission_pct |-> 100]

\* t.get(name, fallback) for the names of 'team', and the session keys
TeamFallbacks == [closers |-> 8, setters |-> 4, managers |-> 2, bench |-> 2]

TeamKeys ==
    [closers |-> "num_closers_main", setters |-> "num_setters_main",
     managers |-> "num_managers_main", bench |-> "num_benchs_main"]

\* c[role].get(name, fallback) for the roles of 'compensation'
CompensationFallbacks ==
    [closer  |-> [base |-> 32000, variable |-> 48000, commission_pct |-> 20],
     setter  |-> [base |-> 16000, variable |-> 24000, commission_pct |-> 3],
     manager |-> [base |-> 72000, variable |-> 48000, commission_pct |-> 5]]

CompensationKeys ==
    [closer  |-> [base |-> "closer_base", variable |-> "closer_variable",
                  commission_pct |-> "closer_commission_pct"],
     setter  |-> [base |-> "setter_base", variable |-> "setter_variable",
                  commission_pct |-> "setter_commission_pct"],
     manager |-> [base |-> "manager_base", variable |-> "manager_variable",
                  commission_pct |-> "manager_commission_pct"]]

\* oc.get(name, fallback) for the names of 'operating_costs'
OperatingCostsFallbacks ==
    [office_rent |-> 20000, software_costs |-> 10000, other_opex |-> 5000]

SameKeys(fallbacks) == [n \in DOMAIN fallbacks |-> n]

NameOf(keys, k) == CHOOSE n \in DOMAIN keys : keys[n] = k

\* "st.session_state[key] = section.get(name, fallback)" for every name
ApplySection(ss, section, fallbacks, keys) ==
    [k \in DOMAIN ss \cup { keys[n] : n \in DOMAIN keys } |->
        IF \E n \in DOMAIN keys : keys[n] = k
        THEN Get(section, NameOf(keys, k), fallbacks[NameOf(keys, k)])
        ELSE ss[k]]

\* "if 'closer' in c: ..." for one role
ApplyRole(ss, c, role) ==
    IF role \in DOMAIN c
    THEN ApplySection(ss, c[role], CompensationFallbacks[role], CompensationKeys[role])
    ELSE ss

\* the body of both Apply buttons: a section that the configuration does
\* not hold is skipped, gtm_channels is taken as it is
ApplyLoadedConfig(ss, loaded_config) ==
    With(IF "deal_economics" \in DOMAIN loaded_config
         THEN ApplySection(ss, loaded_config.deal_economics, DealEconomicsFallbacks,
                           SameKeys(DealEconomicsFallbacks))
         ELSE ss, LAMBDA s1 :
    With(IF "team" \in DOMAIN loaded_config
         THEN ApplySection(s1, loaded_config.team, TeamFallbacks, TeamKeys)
         ELSE s1, LAMBDA s2 :
    With(IF "compensation" \in DOMAIN loaded_config
         THEN ApplyRole(ApplyRole(ApplyRole(s2, loaded_config.compensation, "closer"),
                                  loaded_config.compensation, "setter"),
                        loaded_config.compensation, "manager")
         ELSE s2, LAMBDA s3 :
    With(IF "operating_costs" \in DOMAIN loaded_config
         THEN ApplySection(s3, loaded_config.operating_costs, OperatingCostsFallbacks,
                           SameKeys(OperatingCostsFallbacks))
         ELSE s3, LAMBDA s4 :
        IF "gtm_channels" \in DOMAIN loaded_config
        THEN Put(s4, "gtm_channels", loaded_config.gtm_channels)
        ELSE s4))))

\* configurations a user applies: complete sections, sections with names
\* missing, sections missing, channel lists written by hand
ImportConfigs ==
    { [team |-> [setters |-> 0]],
      [deal_economics |-> [avg_deal_value |-> 10000]],
      [deal_economics |-> [upfront_payment_pct |-> 100, commission_policy |-> "full"],
       operating_costs |-> [office_rent |-> 0]],
      [compensation |-> [closer |-> [base |-> 40000]]],
      [gtm_channels |-> << NewChannel(2) >>],
      [gtm_channels |-> << NewChannel(1), NewChannel(1) >>] }

ImportHandlers == {"Apply Uploaded Config", "Apply Pasted Config"}

\* the run of a click on an Apply button: the script runs, and the button's
\* body writes the session at the end of the run (no st.rerun())
Applied(handler, loaded_config) ==
    /\ LET r == ScriptRun(session_state, widgets, cache)
       IN  AfterRun(session_state,
                    [r EXCEPT !.session_state =
                         ApplyLoadedConfig(r.session_state, loaded_config)])
    /\ call' = [fn |-> handler, config |-> loaded_config, run |-> runs + 1]

\* "Apply Uploaded Config" with the configuration json.load returned
ApplyUploadedConfig ==
    /\ runs < MaxRuns
    /\ \E loaded_config \in ImportConfigs :
         Applied("Apply Uploaded Config", loaded_config)
    /\ runs' = runs + 1
    /\ UNCHANGED result

\* "Apply Pasted Config" with the configuration json.loads returned
ApplyPastedConfig ==
    /\ runs < MaxRuns
    /\ \E loaded_config \in ImportConfigs :
         Applied("Apply Pasted Config", loaded_config)
    /\ runs' = runs + 1
    /\ UNCHANGED result

NextImport ==
    \/ ApplyUploadedConfig
    \/ ApplyPastedConfig
    \/ Interact
    \/ AddChannel
    \/ RemoveLast
    \/ EditDealInput

SpecImport == Init /\ [][NextImport]_vars

\* the run that has just ended applied a configuration
JustImported == call.fn \in ImportHandlers /\ call.run = runs

Missing(config, section, name) ==
    section \notin DOMAIN config \/ name \notin DOMAIN config[section]

MissingForRole(config, role, name) ==
    \/ Missing(config, "compensation", role)
    \/ name \notin DOMAIN config.compensation[role]

HoldsFallback(ss, key, fallback) == key \in DOMAIN ss => ss[key] = fallback

\* C19 (as claimed): after a configuration is applied, every setting whose
\* name (or whose whole section) is missing from the configuration holds its
\* fallback value (avg_deal_value 50000, upfront_payment_pct 70,
\* commission_policy 'upfront', closers 8, ...).
C19_MissingKeysGetFallbacks ==
    JustImported =>
        /\ \A n \in DOMAIN DealEconomicsFallbacks :
              Missing(call.config, "deal_economics", n) =>
                  HoldsFallback(session_state, n, DealEconomicsFallbacks[n])
        /\ \A n \in DOMAIN TeamFallbacks :
              Missing(call.config, "team", n) =>
                  HoldsFallback(session_state, TeamKeys[n], TeamFallbacks[n])
        /\ \A role \in DOMAIN CompensationFallbacks :
              \A n \in DOMAIN CompensationFallbacks[role] :
                  MissingForRole(call.config, role, n) =>
                      HoldsFallback(session_state, CompensationKeys[role][n],
                                    CompensationFallbacks[role][n])
        /\ \A n \in DOMAIN OperatingCostsFallbacks :
              Missing(call.config, "operating_costs", n) =>
                  HoldsFallback(session_state, n, OperatingCostsFallbacks[n])

UniqueIds(channels) ==
    \A i, j \in 1..Len(channels) : i # j => channels[i].id # channels[j].id

\* C20 (as claimed): after any sequence of Add Channel, Remove Last and
\* configuration imports, the channels of session_state.gtm_channels have
\* pairwise distinct ids.
C20_ChannelIdsUnique == UniqueIds(session_state.gtm_channels)

\* the channel and the deal of the worked example: 1000 leads at 65 %, 40 %,
\* 70 % and 30 %, a deal of 50000 paid 70 % upfront, commission on upfront
ScenarioCalled ==
    /\ GtmReturned
    /\ call.channels = << DefaultChannel >>
    /\ call.econ = DealEconomics(R(50000), R(70), "upfront")

\* C21: for the worked example the engine yields 54.6 sales, 35000 upfront
\* cash per deal and 1,911,000 monthly revenue, and a role with a 20 %
\* commission gets a pool of 382,200.
C21_WorkedExample ==
    ScenarioCalled =>
        /\ result.value.monthly_sales = Rat(546, 10)
        /\ calculate_deal_cash_splits(R(50000), R(70)).upfront_cash = R(35000)
        /\ call.econ.upfront_cash = R(35000)
        /\ result.value.monthly_revenue_immediate = R(1911000)
        /\ CommissionPools(result.value.monthly_revenue_immediate,
                           Rat(20, 100), Rat(3, 100)).closer_pool = R(382200)

\* the worked example has been computed
C21_Witness ==
    /\ ScenarioCalled
    /\ result.value.monthly_sales = Rat(273, 5)
    /\ Len(result.value.channels_breakdown) = 1

\* ------------------------------------------------------------------------
\* SpecRatio: three ratios the dashboards display, applied to bounded inputs
\* among them a zero denominator
\* ------------------------------------------------------------------------
\* compensation_v2.py, "Commission Rate":
\* (total_commission / actual_monthly_revenue) * 100
CommissionRateDisplay(total_commission, actual_monthly_revenue) ==
    RMul(RDiv(total_commission, actual_monthly_revenue), R(100))

\* dashboard_improved_final.py, "Target vs Current":
\* monthly_revenue_total / monthly_revenue_target_main * 100
TargetVsCurrent(monthly_revenue_total, monthly_revenue_target_main) ==
    RMul(RDiv(monthly_revenue_total, monthly_revenue_target_main), R(100))

\* dashboard_fast.py, tab 4, "Scenario assessment": the message chosen and
\* the percentage its text formats (none in the third branch)
ScenarioAssessment(new_ebitda, baseline_ebitda) ==
    IF RGt(new_ebitda, RMul(baseline_ebitda, Rat(12, 10)))
    THEN [message |-> "Excellent scenario",
          pct |-> RMul(RSub(RDiv(new_ebitda, baseline_ebitda), R(1)), R(100))]
    ELSE IF RLt(new_ebitda, RMul(baseline_ebitda, Rat(8, 10)))
    THEN [message |-> "Risky scenario",
          pct |-> RMul(RSub(R(1), RDiv(new_ebitda, baseline_ebitda)), R(100))]
    ELSE [message |-> "Moderate impact", pct |-> Zero]

RatioAmounts == {R(0), R(1000), R(382200), R(1911000)}

EbitdaAmounts ==
    {R(0 - 100000), R(0 - 90000), R(0 - 1), R(0), R(1), R(90000), R(100000), R(130000)}

InitRatio ==
    /\ call \in { [fn |-> "Commission Rate", total_commission |-> c,
                   actual_monthly_revenue |-> r] :
                      c \in RatioAmounts, r \in RatioAmounts }
              \cup { [fn |-> "Target vs Current", monthly_revenue_total |-> t,
                      monthly_revenue_target_main |-> g] :
                      t \in RatioAmounts, g \in RatioAmounts }
              \cup { [fn |-> "Scenario assessment", new_ebitda |-> n,
                      baseline_ebitda |-> b] :
                      n \in EbitdaAmounts, b \in EbitdaAmounts }
    /\ result = NoResult
    /\ SessionInit

CallCommissionRate ==
    /\ call.fn = "Commission Rate"
    /\ ~result.done
    /\ result' = Returned(CommissionRateDisplay(call.total_commission,
                                                call.actual_monthly_revenue))
    /\ UNCHANGED <<call, sessionVars>>

CallTargetVsCurrent ==
    /\ call.fn = "Target vs Current"
    /\ ~result.done
    /\ result' = Returned(TargetVsCurrent(call.monthly_revenue_total,
                                          call.monthly_revenue_target_main))
    /\ UNCHANGED <<call, sessionVars>>

CallScenarioAssessment ==
    /\ call.fn = "Scenario assessment"
    /\ ~result.done
    /\ result' = Returned(ScenarioAssessment(call.new_ebitda,
                                             call.baseline_ebitda).pct)
    /\ UNCHANGED <<call, sessionVars>>

NextRatio ==
    \/ CallCommissionRate
    \/ CallTargetVsCurrent
    \/ CallScenarioAssessment

SpecRatio == InitRatio /\ [][NextRatio]_vars

RatioReturned ==
    /\ call.fn \in {"Commission Rate", "Target vs Current", "Scenario assessment"}
    /\ result.done

\* C22 (as claimed): no ratio is computed with a zero denominator: the
\* commission rate with no revenue, the target comparison with a target of 0
\* and the scenario assessment with a baseline EBITDA of 0 all yield a
\* number.
C22_NoZeroDenominator == RatioReturned => IsNum(result.value)

\* ------------------------------------------------------------------------
\* SpecAlerts: generate_alerts applied to the results of
\* calculate_unit_economics_cached and calculate_pnl_cached for bounded
\* arguments
\* ------------------------------------------------------------------------
AlertUnitInputs ==
    [deal_value    : {R(0), R(12000), R(50000)},
     upfront_pct   : {R(0), R(5), R(70), R(100)},
     grr           : {Rat(9, 10)},
     cost_per_sale : {Zero, R(5000), R(50000), R(999000)}]

AlertPnlInputs ==
    [revenue     : {R(0), R(100000), R(1911000)},
     team_base   : {R(0), R(489000)},
     commissions : {R(0), R(30000)},
     marketing   : {R(50000)},
     opex        : {R(35000)},
     gov_fees    : {R(0), R(10000)}]

InitAlerts ==
    /\ call \in { [fn |-> "generate_alerts", unit |-> u, pnl |-> p,
                   monthly_sales |-> n] :
                    u \in AlertUnitInputs, p \in AlertPnlInputs,
                    n \in {Zero, Rat(273, 5)} }
    /\ result = NoResult
    /\ SessionInit

AlertsOf(gtm, ue, pnl) ==
    [unit_econ |-> ue, pnl_data |-> pnl, alerts |-> generate_alerts(gtm, ue, pnl)]

CallAlerts ==
    /\ call.fn = "generate_alerts"
    /\ ~result.done
    /\ result' = Returned(AlertsOf(
                     [monthly_sales |-> call.monthly_sales],
                     calculate_unit_economics_cached(
                         call.unit.deal_value, call.unit.upfront_pct,
                         call.unit.grr, call.unit.cost_per_sale),
                     calculate_pnl_cached(
                         call.pnl.revenue, call.pnl.team_base, call.pnl.commissions,
                         call.pnl.marketing, call.pnl.opex, call.pnl.gov_fees)))
    /\ UNCHANGED <<call, sessionVars>>

NextAlerts == CallAlerts

SpecAlerts == InitAlerts /\ [][NextAlerts]_vars

AlertsReturned == call.fn = "generate_alerts" /\ result.done

HasAlert(list, title) == \E i \in 1..Len(list) : list[i].title = title

\* a deal that can pay for its acquisition: cash is collected upfront and
\* the acquisition cost is not above the deal value
FeasibleDeal(unit) ==
    /\ RGt(RMul(unit.deal_value, unit.upfront_pct), Zero)
    /\ RLe(unit.cost_per_sale, unit.deal_value)

TypeRank(type) == IF type = "error" THEN 1 ELSE IF type = "warning" THEN 2 ELSE 3

\* C30: the alerts never hold 'Healthy Business Metrics' together with
\* 'Unit Economics Unhealthy' or 'Negative EBITDA', and in the list the
\* error alerts precede the warnings, which precede the success alert.
C30_AlertsConsistent ==
    AlertsReturned =>
        LET list == result.value.alerts
        IN  /\ HasAlert(list, "Healthy Business Metrics") =>
                  /\ ~HasAlert(list, "Unit Economics Unhealthy")
                  /\ ~HasAlert(list, "Negative EBITDA")
            /\ \A i, j \in 1..Len(list) :
                  i < j => TypeRank(list[i].type) <= TypeRank(list[j].type)

\* a healthy business with a warning: the success alert comes last
C30_Witness ==
    /\ AlertsReturned
    /\ Len(result.value.alerts) >= 2
    /\ result.value.alerts[Len(result.value.alerts)].title = "Healthy Business Metrics"
    /\ result.value.alerts[1].type = "warning"


\* ------------------------------------------------------------------------
\* SpecRoundTrip: the session with the configuration download and the two
\* Apply buttons given the downloaded configuration
\* ------------------------------------------------------------------------
\* the session as the configuration tab of a run finds it
InRunSession(ss0, wd0) ==
    With(initialize_session_state(ss0), LAMBDA ss1 :
        DealEconomicsSection(
            Put(ss1, "gtm_channels",
                ConfigureChannels(ss1.gtm_channels,
                                  RenderChannelWidgets(ss1.gtm_channels, wd0)))
        ).session_state)

\* build_config without the timestamp; the keys the session holds from
\* initialize_session_state on and that no modelled input writes are read
\* with the value given there
build_config(ss) ==
    [deal_economics |->
        [business_type |-> Get(ss, "business_type", "Custom"),
         deal_calc_method |-> Get(ss, "deal_calc_method", "Direct Value"),
         avg_deal_value |-> ss.avg_deal_value,
         contract_length_months |-> ss.contract_length_months,
         upfront_payment_pct |-> ss.upfront_payment_pct,
         deferred_timing_months |-> Get(ss, "deferred_timing_months", 18),
         commission_policy |-> ss.commission_policy,
         government_cost_pct |-> Get(ss, "government_cost_pct", 10),
         grr_rate |-> ss.grr_rate,
         monthly_premium |-> Get(ss, "monthly_premium", 3000),
         insurance_commission_rate |-> Get(ss, "insurance_commission_rate", 27),
         insurance_contract_years |-> Get(ss, "insurance_contract_years", 18),
         mrr |-> Get(ss, "mrr", 5000),
         sub_term_months |-> Get(ss, "sub_term_months", 12),
         total_contract_value |-> Get(ss, "total_contract_value", 100000),
         contract_commission_pct |-> Get(ss, "contract_commission_pct", 100)],
     team |->
        [closers |-> ss.num_closers_main, setters |-> ss.num_setters_main,
         managers |-> ss.num_managers_main, bench |-> ss.num_benchs_main],
     compensation |->
        [closer  |-> [base |-> ss.closer_base,
                      variable |-> Get(ss, "closer_variable", 48000),
                      commission_pct |-> ss.closer_commission_pct],
         setter  |-> [base |-> ss.setter_base,
                      variable |-> Get(ss, "setter_variable", 24000),
                      commission_pct |-> ss.setter_commission_pct],
         manager |-> [base |-> ss.manager_base,
                      variable |-> Get(ss, "manager_variable", 48000),
                      commission_pct |-> ss.manager_commission_pct],
         bench   |-> [base |-> ss.bench_base,
                      variable |-> Get(ss, "bench_variable", 12500)]],
     operating_costs |->
        [office_rent |-> ss.office_rent, software_costs |-> ss.software_costs,
         other_opex |-> ss.other_opex],
     gtm_channels |-> ss.gtm_channels,
     version |-> "1.0"]

\* the options of the "Business Type" selectbox that the model offers
BusinessTypes == {"Custom", "Insurance", "SaaS/Subscription"}

\* the user picks a business type (no template is applied)
SelectBusinessType ==
    /\ runs < MaxRuns
    /\ \E business_type \in BusinessTypes :
         /\ Get(session_state, "business_type", "Custom") # business_type
         /\ LET ss == Put(session_state, "business_type", business_type)
            IN  AfterRun(ss, ScriptRun(ss, widgets, cache))
    /\ runs' = runs + 1
    /\ UNCHANGED fnVars

\* "Download Config": the file holds the config_json of the page
DownloadConfig ==
    /\ result' = Returned(build_config(InRunSession(session_state, widgets)))
    /\ result' # result
    /\ UNCHANGED <<sessionVars, call>>

\* "Apply Uploaded Config" with a downloaded file
ApplyUploadedExport ==
    /\ runs < MaxRuns
    /\ result.done
    /\ Applied("Apply Uploaded Config", result.value)
    /\ runs' = runs + 1
    /\ UNCHANGED result

\* "Apply Pasted Config" with the text of a downloaded file
ApplyPastedExport ==
    /\ runs < MaxRuns
    /\ result.done
    /\ Applied("Apply Pasted Config", result.value)
    /\ runs' = runs + 1
    /\ UNCHANGED result

NextRoundTrip ==
    \/ DownloadConfig
    \/ ApplyUploadedExport
    \/ ApplyPastedExport
    \/ SelectBusinessType
    \/ EditDealInput
    \/ SelectCommissionPolicy
    \/ AddChannel
    \/ RemoveLast

SpecRoundTrip == Init /\ [][NextRoundTrip]_vars

\* the run that has just ended applied the configuration downloaded before
ExportApplied == JustImported /\ result.done /\ call.config = result.value

\* C26 (as claimed): after a downloaded configuration is applied, by either
\* Apply button and to whatever session, build_config of the session equals
\* the downloaded configuration in every field but the timestamp, bench
\* compensation, business_type and the whole channel list included.
C26_ExportImportRoundTrip ==
    ExportApplied => build_config(session_state) = result.value

\* the same without business_type: what the Apply buttons do write
C26_RoundTripButBusinessType ==
    ExportApplied =>
        [build_config(session_state) EXCEPT !.deal_economics.business_type = "Custom"]
        = [result.value EXCEPT !.deal_economics.business_type = "Custom"]


\* ------------------------------------------------------------------------
\* SpecWhatIf: the session with the sliders of tab 4 (What-If Analysis)
\* ------------------------------------------------------------------------
\* comm_calc['commission_rate']: the total commission as a percentage of
\* the monthly revenue (0 when there is no revenue)
commission_rate(comm, monthly_revenue) ==
    IF monthly_revenue = Zero THEN Zero
    ELSE RMul(RDiv(comm.total_commission, monthly_revenue), R(100))

\* "marketing_multiplier ** 0.5" for the multipliers with a rational root
LeadImpact(marketing_multiplier) ==
    CHOOSE q \in { Rat(n, 10) : n \in 0..20 } : RMul(q, q) = marketing_multiplier

\* "min(1.0, max(0.0, rate))"
Clamp01(rate) == IF RLt(rate, Zero) THEN Zero ELSE IF RGt(rate, R(1)) THEN R(1) ELSE rate

\* the positions of the four sliders (multipliers 0.5 .. 2.0, close rate
\* adjustment in percentage points); the marketing multiplier stays where
\* its square root is rational
SliderSettings ==
    [team_multiplier : {Rat(5, 10), R(1), Rat(11, 10), R(2)},
     deal_multiplier : {Rat(5, 10), R(1), R(2)},
     marketing_multiplier : {R(1)},
     close_rate_delta : {0 - 10, 0, 10}]

NeutralSliders ==
    [team_multiplier |-> R(1), deal_multiplier |-> R(1), marketing_multiplier |-> R(1),
     close_rate_delta |-> 0]

\* "Projected Impact": the projection from the values the run computed at
\* its top and the assessment shown under it
WhatIf(sl, ss, gtm, tab4_deal_econ, comm, mkt, pnl) ==
    With(RMul(TeamBase(ss), sl.team_multiplier), LAMBDA new_team_cost :
    With(RMul(tab4_deal_econ.avg_deal_value, sl.deal_multiplier), LAMBDA new_deal_value :
    With(RMul(mkt, sl.marketing_multiplier), LAMBDA new_marketing :
    With(Clamp01(RAdd(gtm.blended_close_rate, Rat(sl.close_rate_delta, 100))),
         LAMBDA new_close_rate :
    With(IF RGt(gtm.blended_close_rate, Zero)
         THEN RDiv(new_close_rate, gtm.blended_close_rate) ELSE R(1),
         LAMBDA close_impact :
    With(RMul(RMul(gtm.monthly_sales, LeadImpact(sl.marketing_multiplier)), close_impact),
         LAMBDA new_sales :
    With(RMul(new_sales,
              calculate_deal_cash_splits(new_deal_value,
                                         tab4_deal_econ.upfront_pct).upfront_cash),
         LAMBDA new_revenue :
    With(RMul(new_revenue,
              RDiv(commission_rate(comm, gtm.monthly_revenue_immediate), R(100))),
         LAMBDA new_comm :
    With(RSub(RSub(RSub(RSub(new_revenue, new_team_cost), new_comm), new_marketing),
              R(ss.office_rent + ss.software_costs + ss.other_opex)),
         LAMBDA new_ebitda :
        [baseline_sales   |-> gtm.monthly_sales,
         baseline_revenue |-> gtm.monthly_revenue_immediate,
         baseline_ebitda  |-> pnl.ebitda,
         new_sales        |-> new_sales,
         new_revenue      |-> new_revenue,
         new_ebitda       |-> new_ebitda,
         assessment       |-> ScenarioAssessment(new_ebitda, pnl.ebitda).message])))))))))

\* the user moves the sliders of tab 4: the run that follows shows the
\* projection for their positions
MoveSliders ==
    /\ runs < MaxRuns
    /\ AfterRun(session_state, ScriptRun(session_state, widgets, cache))
    /\ \E sl \in SliderSettings :
         /\ call' = [fn |-> "what_if", sliders |-> sl, run |-> runs + 1]
         /\ result' = Returned(WhatIf(sl, session_state', gtm_metrics', deal_econ',
                                      comm_calc', marketing_spend', pnl_data'))
    /\ runs' = runs + 1

NextWhatIf ==
    \/ MoveSliders
    \/ EditChannel
    \/ EditDealInput
    \/ SelectCommissionPolicy
    \/ AddChannel
    \/ RemoveLast

SpecWhatIf == Init /\ [][NextWhatIf]_vars

\* the run that has just ended showed a projection
WhatIfShown == call.fn = "what_if" /\ call.run = runs /\ result.done

\* C27 (as claimed): with all multipliers at 1.0 and the close rate
\* adjustment at 0 the projected EBITDA is the baseline EBITDA of
\* calculate_pnl_cached and the projected revenue is the baseline monthly
\* revenue, whatever the configuration and the government cost percentage.
C27_NeutralIsBaseline ==
    (WhatIfShown /\ call.sliders = NeutralSliders) =>
        /\ result.value.new_ebitda = result.value.baseline_ebitda
        /\ result.value.new_revenue = result.value.baseline_revenue

\* what the neutral projection is when its revenue is the baseline's: the
\* baseline EBITDA with the government fees added back
C27_NeutralOmitsGovFees ==
    (WhatIfShown /\ call.sliders = NeutralSliders
       /\ result.value.new_revenue = result.value.baseline_revenue) =>
        result.value.new_ebitda =
            RAdd(result.value.baseline_ebitda, pnl_data.gov_fees)

\* C28 (as claimed): the assessment is 'Excellent scenario' only when the
\* projected EBITDA is strictly greater than the baseline EBITDA, and 'Risky
\* scenario' only when it is strictly lower, negative baselines included.
C28_AssessmentFollowsDirection ==
    WhatIfShown =>
        /\ result.value.assessment = "Excellent scenario" =>
               RGt(result.value.new_ebitda, result.value.baseline_ebitda)
        /\ result.value.assessment = "Risky scenario" =>
               RLt(result.value.new_ebitda, result.value.baseline_ebitda)

\* the same for the baselines that are not negative
C28_HoldsForNonNegativeBaseline ==
    (WhatIfShown /\ RGe(result.value.baseline_ebitda, Zero)) =>
        /\ result.value.assessment = "Excellent scenario" =>
               RGt(result.value.new_ebitda, result.value.baseline_ebitda)
        /\ result.value.assessment = "Risky scenario" =>
               RLt(result.value.new_ebitda, result.value.baseline_ebitda)


\* ------------------------------------------------------------------------
\* SpecCapacity: get_capacity_metrics (dashboard_improved_final.py) applied
\* to the headcounts of a run and the settings an earlier run stored
\* ------------------------------------------------------------------------
\* st.session_state.get('team_capacity_settings', {}) before any run stored it
NoSettings == [k \in {} |-> 0]

\* "Capacity Analysis": the settings a run stores from the inputs of the
\* team section
StoreCapacitySettings(closers_main, setters_main, per_closer, per_setter, days) ==
    [meetings_per_closer |-> per_closer,
     meetings_per_setter |-> per_setter,
     working_days |-> days,
     monthly_closer_capacity |-> closers_main * per_closer * days,
     monthly_setter_capacity |-> setters_main * per_setter * days]

get_capacity_metrics(settings, default_closers, default_setters) ==
    With(Get(settings, "working_days", 20), LAMBDA working_days :
    With(Get(settings, "meetings_per_closer", 3), LAMBDA meetings_per_closer :
    With(Get(settings, "meetings_per_setter", 2), LAMBDA meetings_per_setter :
        [working_days |-> working_days,
         meetings_per_closer |-> meetings_per_closer,
         meetings_per_setter |-> meetings_per_setter,
         per_closer_monthly_capacity |-> meetings_per_closer * working_days,
         per_setter_monthly_capacity |-> meetings_per_setter * working_days,
         monthly_closer_capacity |->
             Get(settings, "monthly_closer_capacity",
                 default_closers * (meetings_per_closer * working_days)),
         monthly_setter_capacity |->
             Get(settings, "monthly_setter_capacity",
                 default_setters * (meetings_per_setter * working_days))])))

\* headcounts of the sidebar and of the team section, meetings per person
\* and day, working days per month (10 .. 26)
CapacityHeadcounts == {0, 4, 8, 10}

CapacityMeetings == {0, 2, 3}

CapacityWorkingDays == {10, 20, 26}

StoredCapacitySettings ==
    { StoreCapacitySettings(c, s, mc, ms, wd) :
        c \in CapacityHeadcounts, s \in CapacityHeadcounts,
        mc \in CapacityMeetings, ms \in CapacityMeetings, wd \in CapacityWorkingDays }

InitCapacity ==
    /\ SessionInit
    /\ \/ call \in { [fn |-> "get_capacity_metrics", settings |-> NoSettings,
                      default_closers |-> c, default_setters |-> s] :
                       c \in CapacityHeadcounts, s \in CapacityHeadcounts }
       \/ call \in { [fn |-> "get_capacity_metrics", settings |-> st,
                      default_closers |-> c, default_setters |-> s] :
                       st \in StoredCapacitySettings,
                       c \in CapacityHeadcounts, s \in CapacityHeadcounts }
    /\ result = NoResult

CallCapacity ==
    /\ call.fn = "get_capacity_metrics"
    /\ ~ result.done
    /\ result' = Returned(get_capacity_metrics(call.settings, call.default_closers,
                                               call.default_setters))
    /\ UNCHANGED <<sessionVars, call>>

SpecCapacity == InitCapacity /\ [][CallCapacity]_vars

CapacityReturned == call.fn = "get_capacity_metrics" /\ result.done

\* C29 (as claimed): whatever settings are stored and whatever headcounts
\* are passed, the monthly capacities returned are the headcount passed
\* times the meetings per person and the working days returned with them.
C29_TotalsFollowHeadcount ==
    CapacityReturned =>
        /\ result.value.monthly_closer_capacity =
               call.default_closers * result.value.meetings_per_closer
                   * result.value.working_days
        /\ result.value.monthly_setter_capacity =
               call.default_setters * result.value.meetings_per_setter
                   * result.value.working_days

\* the same before any settings are stored
C29_HoldsWithoutStoredSettings ==
    (CapacityReturned /\ call.settings = NoSettings) =>
        /\ result.value.monthly_closer_capacity =
               call.default_closers * result.value.per_closer_monthly_capacity
        /\ result.value.monthly_setter_capacity =
               call.default_setters * result.value.per_setter_monthly_capacity

====
